---- MODULE Spec2Model ----
(***************************************************************************)
(* A model of the news pipeline of the CEF dashboard                       *)
(* (src/core/news_fetcher.py): the source adapters with their seen-id      *)
(* cache, the content deduplicator, the rule-based classifier, the         *)
(* relevance filter and the priority sort.                                 *)
(*                                                                         *)
(* Texts are TLA+ strings handled character by character (Len, SubSeq,     *)
(* \o), so lower-casing, punctuation stripping, whitespace splitting,      *)
(* substring search and the \b word-boundary search are computed as the    *)
(* Python code computes them.  Scores are kept in hundredths (0.4 is 40),  *)
(* so the additive weights, the 0.05 threshold and the 1.0 clamp are exact *)
(* integers.  md5 is modelled as collision free: an id is the very string  *)
(* that the code hashes.                                                   *)
(*                                                                         *)
(* Two smaller models follow it: the 13D/13G filings fetcher with its      *)
(* SQLite table (src/core/sec_filings_fetcher.py, SpecFilings) and the     *)
(* hidden rows of the news panel (src/panels/news.py, SpecPanel).          *)
(***************************************************************************)
EXTENDS Integers, Sequences, FiniteSets, TLC

VARIABLES
    api_key,             \* self.api_keys['newsapi'] (None when NEWSAPI_KEY is unset)
    world,               \* what the external sources answer (fixed for a behaviour)
    pc,                  \* position of the caller in fetch_all_news
    runs,                \* number of fetch_all_news calls begun on this instance
    article_cache,       \* self.article_cache
    all_articles,        \* fetch_all_news: all_articles
    unique_articles,     \* fetch_all_news: unique_articles
    processed_articles,  \* fetch_all_news: processed_articles
    returned,            \* the lists returned by the completed calls, oldest first
    log,                 \* pauses and network requests of the current call, in order
    arg_title,           \* enhanced_classify_article: title argument
    arg_content,         \* enhanced_classify_article: content argument
    classified,          \* enhanced_classify_article: its returned tuple (or NotCalled)
    edgar,               \* what EDGAR answers (fixed for a behaviour)
    utcnow,              \* datetime.utcnow() at the latest fetch_cef_filings call
    sec_filings,         \* the rows of the sec_filings table
    fetched,             \* the fetch_cef_filings calls made: arguments and returned list
    requested,           \* the urls each fetch_cef_filings call requested, in order
    news_df,             \* news panel: the table _get_articles returned
    hidden_news_rows,    \* st.session_state.hidden_news_rows
    hidden_articles      \* the articles whose hide button was pressed since the last reset

vars == <<api_key, world, pc, runs, article_cache, all_articles, unique_articles,
          processed_articles, returned, log, arg_title, arg_content, classified,
          edgar, utcnow, sec_filings, fetched, requested,
          news_df, hidden_news_rows, hidden_articles>>

pipelineVars == <<api_key, world, pc, runs, article_cache, all_articles,
                  unique_articles, processed_articles, returned, log>>

classifyVars == <<arg_title, arg_content, classified>>

filingsVars == <<edgar, utcnow, sec_filings, fetched, requested>>

panelVars == <<news_df, hidden_news_rows, hidden_articles>>

\* no CEFSecFilingsFetcher is in use
IdleFilings ==
    /\ edgar = <<>>
    /\ utcnow = <<>>
    /\ sec_filings = {}
    /\ fetched = <<>>
    /\ requested = <<>>

\* the news panel is not open
IdlePanel ==
    /\ news_df = <<>>
    /\ hidden_news_rows = {}
    /\ hidden_articles = {}

(***************************************************************************)
(* Bounds of the model.                                                    *)
(***************************************************************************)
MaxRuns == 2        \* fetch_all_news calls on one fetcher instance
MaxEntries == 1     \* records one source answers with in one request
MaxArticles == 3    \* length of a list handed to advanced_deduplication
MaxPhrases == 2     \* phrases a classified title is put together from

(***************************************************************************)
(* Python values.                                                          *)
(***************************************************************************)
None == "<None>"    \* Python's None where a text is expected

\* Python's `x or d` for a text x
OrElse(x, d) == IF x = None \/ x = "" THEN d ELSE x

\* Python's truthiness of a text
Truthy(x) == x # None /\ x # ""

Ch(s, i) == SubSeq(s, i, i)

UPPER == "ABCDEFGHIJKLMNOPQRSTUVWXYZ"
LOWER == "abcdefghijklmnopqrstuvwxyz"
DIGITS == "0123456789_"

UpperChars == { Ch(UPPER, k) : k \in 1..Len(UPPER) }

LowerOf == [ c \in UpperChars |-> Ch(LOWER, CHOOSE k \in 1..Len(UPPER) : Ch(UPPER, k) = c) ]

\* str.lower() of one character
LowerCh(c) == IF c \in UpperChars THEN LowerOf[c] ELSE c

RECURSIVE LowerFrom(_, _)
LowerFrom(s, i) == IF i > Len(s) THEN "" ELSE LowerCh(Ch(s, i)) \o LowerFrom(s, i + 1)

\* str.lower()
Lower(s) == LowerFrom(s, 1)

WordChars ==
    UpperChars \cup { Ch(LOWER, k) : k \in 1..Len(LOWER) }
               \cup { Ch(DIGITS, k) : k \in 1..Len(DIGITS) }

\* the regex class \w
IsWordCh(c) == c \in WordChars

\* the regex class \s
IsSpaceCh(c) == c = " "

\* Python's `pat in text`
Contains(text, pat) ==
    \E i \in 1..(Len(text) - Len(pat) + 1) : SubSeq(text, i, i + Len(pat) - 1) = pat

\* the regex assertion \b between text[k] and text[k+1] (k = 0: the start)
Boundary(text, k) ==
    (k >= 1 /\ IsWordCh(Ch(text, k))) # (k < Len(text) /\ IsWordCh(Ch(text, k + 1)))

\* re.search(r'\b' + re.escape(pat) + r'\b', text) for a pattern of letters
WordSearch(text, pat) ==
    \E i \in 1..(Len(text) - Len(pat) + 1) :
        /\ SubSeq(text, i, i + Len(pat) - 1) = pat
        /\ Boundary(text, i - 1)
        /\ Boundary(text, i + Len(pat) - 1)

\* any(term in text for term in terms)
AnyIn(terms, text) == \E k \in 1..Len(terms) : Contains(text, terms[k])

(***************************************************************************)
(* Python dicts and lists.                                                 *)
(***************************************************************************)
\* dict.get(key, default)
Get(d, key, default) == IF key \in DOMAIN d THEN d[key] ELSE default

\* list[:n]
Take(list, n) == SubSeq(list, 1, IF Len(list) < n THEN Len(list) ELSE n)

\* hashlib.md5(s.encode()).hexdigest(), taken to be collision free
Md5(s) == <<"md5", s>>

\* datetime.now().isoformat() during the n-th call of fetch_all_news
Now(n) == <<"now", n>>

(***************************************************************************)
(* The records the model draws its inputs from: what the feeds, the two    *)
(* scraped pages and the search API may answer with, and the raw articles  *)
(* a list handed to advanced_deduplication is made of.                     *)
(***************************************************************************)
ArticleUrl == "https://seekingalpha.com/article/1"

FeedEntries ==
    { [ link |-> ArticleUrl, title |-> "ASA Gold tender",
        summary |-> "Saba Capital bids for ASA", published |-> "2024-01-02" ],
      [ link |-> "https://example.com/nuveen-cef-discount",
        summary |-> "Nuveen fund merger closes" ],
      [ title |-> "Weather report", summary |-> "" ] }

SeekingAlphaLinkPool == { [ href |-> "/article/1", text |-> "ASA Gold tender" ] }

CefConnectItemPool ==
    { [ name |-> "a", text |-> "Weather report", href |-> "/news/1" ],
      [ name |-> "h3", text |-> "CEF news", href |-> None ] }

NewsApiArticlePool ==
    { [ url |-> ArticleUrl, title |-> "ASA Gold tender", description |-> "ASA tender",
        content |-> "ASA Gold tender offer", publishedAt |-> "2024-01-02T00:00:00Z" ],
      [ url |-> "https://example.com/", title |-> "nuveen-cef-discount",
        description |-> "discount widens", content |-> "Nuveen CEF discount widens",
        publishedAt |-> "2024-01-03T00:00:00Z" ] }

Raw(id, title, summary, content) ==
    [ id |-> id, title |-> title, summary |-> summary, content |-> content,
      url |-> "https://example.com/" \o id, source |-> "etf_daily_news",
      published_at |-> "2024-01-02T00:00:00" ]

\* a dict without one of its keys
Without(d, key) == [ k \in DOMAIN d \ {key} |-> d[k] ]

BatchPool ==
    { Raw("1", "ASA Gold tender offer", "", ""),
      Raw("2", "ASA Gold: tender offer", "today", ""),
      Raw("3", "Saba Capital", "targets ASA fund", "Saba Capital targets ASA"),
      Raw("4", "Nuveen fund merger", "closing", "Nuveen fund merger closing"),
      Raw("5", "Swiss Helvetia Fund report", "annual", "Swiss Helvetia Fund annual report"),
      Raw("6", "ASA leverage", "rising", "ASA leverage rising"),
      Raw("7", "a b c d e f g", "", ""),
      Raw("8", "a b c d e f g", "h i j", ""),
      Without(Raw("9", "ECF proxy contest", "", ""), "id"),
      Without(Raw("10", "BCV dividend", "", ""), "source"),
      Without(Raw("11", "", "SWZ yield", "SWZ yield"), "title"),
      Raw("12", "ASA Gold tender offer", "today update", "") }

\* the (title, content) pairs the records above are classified by
PoolTexts ==
    { <<Get(e, "title", ""), Get(e, "summary", "")>> : e \in FeedEntries }
    \cup { <<l.text, l.text>> : l \in SeekingAlphaLinkPool }
    \cup { <<i.text, i.text>> : i \in CefConnectItemPool }
    \cup { <<a.title, a.content>> : a \in NewsApiArticlePool }
    \cup { <<Get(r, "title", ""), r.content>> : r \in BatchPool }

(***************************************************************************)
(* EnhancedCEFNewsClassifier: the reference lists.                         *)
(***************************************************************************)
cef_tickers ==
    << "ASA", "SWZ", "ECF", "BCV", "NBXG", "JOF", "GAM", "BIGZ", "BMEZ", "TTP",
       "PHD", "PHT", "MAV", "MHI", "MIO", "HNW", "RCS", "MCI", "RSF", "UTF",
       "EVV", "EXG", "AVK", "CHW", "CII", "EOI", "ETW", "EVG", "EVN", "EVT" >>

fund_families ==
    << "BlackRock", "Nuveen", "Eaton Vance", "PIMCO", "Calamos", "Cohen & Steers",
       "Gabelli", "Pioneer", "MFS", "Invesco", "Aberdeen", "Western Asset",
       "Neuberger Berman", "Tortoise", "Flaherty & Crumrine" >>

cef_keywords ==
    << "closed-end fund", "closed end fund", "CEF", "discount to NAV", "premium to NAV",
       "net asset value", "fund distribution", "managed distribution", "rights offering",
       "tender offer", "liquidation", "conversion to open-end", "activist investor",
       "proxy contest", "board of directors", "fund merger", "fund reorganization",
       "distribution coverage", "leverage", "preferred shares" >>

activist_firms ==
    << "Saba Capital", "Bulldog Investors", "Karpus Investment Management",
       "City of London Investment Management", "Laxey Partners", "RiverNorth Capital",
       "Cornerstone Strategic Value Fund", "Engine Capital", "Ancora Advisors" >>

(***************************************************************************)
(* CEFNewsFetcher.enhanced_classify_article.  Scores in hundredths.        *)
(***************************************************************************)
TickerWeight == 40
FamilyWeight == 30
KeywordWeight == 20
ActivistWeight == 50
MultiTickerBonus == 20
MaxRelevance == 100

\* ticker.lower(), family.lower(), keyword.lower(), activist.lower()
LowerAll(list) == [ k \in 1..Len(list) |-> Lower(list[k]) ]

LowerTickers == LowerAll(cef_tickers)

LowerNames == [ list \in {fund_families, cef_keywords, activist_firms} |-> LowerAll(list) ]

TickerHit(text, k) == WordSearch(text, LowerTickers[k])

SubstringHit(text, list, k) == Contains(text, LowerNames[list][k])

\* for ticker in cef_tickers: if re.search(...): found_tickers.append(ticker)
RECURSIVE FoundTickers(_, _)
FoundTickers(text, k) ==
    IF k > Len(cef_tickers) THEN <<>>
    ELSE (IF TickerHit(text, k) THEN <<cef_tickers[k]>> ELSE <<>>)
         \o FoundTickers(text, k + 1)

RECURSIVE FoundIn(_, _, _)

\* a name that occurs in the text appended twice
FoundInTwice(list, text, k) ==
    IF k > Len(list) THEN <<>>
    ELSE (IF SubstringHit(text, list, k) THEN <<list[k], list[k]>> ELSE <<>>)
         \o FoundIn(list, text, k + 1)

\* the elements of list, from the k-th on, that occur in text, in list order
FoundIn(list, text, k) ==
    IF k > Len(list) THEN <<>>
    ELSE (IF SubstringHit(text, list, k) THEN <<list[k]>> ELSE <<>>)
         \o FoundIn(list, text, k + 1)

\* the rules tried in the opposite order
CategoryLastMatch(text) ==
    IF AnyIn(<<"merger", "liquidation", "conversion">>, text) THEN "corporate_actions"
    ELSE IF AnyIn(<<"distribution", "dividend", "yield">>, text) THEN "distributions"
    ELSE IF AnyIn(<<"activist", "proxy", "tender">>, text) THEN "activist_activity"
    ELSE "general"

\* lines 348-355
Category(text) ==
    IF AnyIn(<<"activist", "proxy", "tender">>, text) THEN "activist_activity"
    ELSE IF AnyIn(<<"distribution", "dividend", "yield">>, text) THEN "distributions"
    ELSE IF AnyIn(<<"merger", "liquidation", "conversion">>, text) THEN "corporate_actions"
    ELSE "general"

\* the text both the matching and the category rules read (lines 313-315)
ClassifyText(title, content) == Lower(OrElse(title, "") \o " " \o OrElse(content, ""))

\* the score returned without the clamp
Unclamped(score) == score

\* min(relevance_score, 1.0)
Clamp(score) == IF score < MaxRelevance THEN score ELSE MaxRelevance

\* the locals of enhanced_classify_article when it reaches line 348
Signals(text) ==
    LET found_tickers == FoundTickers(text, 1)
        found_fund_names == FoundIn(fund_families, text, 1)
        found_keywords == FoundIn(cef_keywords, text, 1)
        found_activists == FoundIn(activist_firms, text, 1)
    IN  [ found_tickers |-> found_tickers,
          found_fund_names |-> found_fund_names,
          found_keywords |-> found_keywords,
          found_activists |-> found_activists,
          relevance_score |->
              TickerWeight * Len(found_tickers)
              + FamilyWeight * Len(found_fund_names)
              + KeywordWeight * Len(found_keywords)
              + ActivistWeight * Len(found_activists)
              + (IF Len(found_tickers) > 1 THEN MultiTickerBonus ELSE 0) ]

\* the returned tuple (category, final_relevance, 0.0, found_tickers, found_activists)
\* as a function of the text
Classification(text) ==
    LET at348 == Signals(text)
    IN  [ category |-> Category(text),
          relevance |-> Clamp(at348.relevance_score),
          sentiment |-> 0,
          tickers |-> at348.found_tickers,
          activists |-> at348.found_activists ]

\* The classification of the texts of the pools, evaluated once: the classifier is a
\* function of its text, and the pipeline classifies the same few texts in every state.
PoolClassification ==
    [ text \in { ClassifyText(p[1], p[2]) : p \in PoolTexts } |-> Classification(text) ]

enhanced_classify_article(title, content) ==
    LET text == ClassifyText(title, content)
    IN  IF text \in DOMAIN PoolClassification
        THEN PoolClassification[text]
        ELSE Classification(text)

(***************************************************************************)
(* CEFNewsFetcher.advanced_deduplication.                                  *)
(***************************************************************************)
\* re.sub(r'[^\w\s]', '', s)
RECURSIVE StripPunctFrom(_, _)
StripPunctFrom(s, i) ==
    IF i > Len(s) THEN ""
    ELSE (IF IsWordCh(Ch(s, i)) \/ IsSpaceCh(Ch(s, i)) THEN Ch(s, i) ELSE "")
         \o StripPunctFrom(s, i + 1)

StripPunct(s) == StripPunctFrom(s, 1)

\* frozenset(s.split()): the maximal runs of non-whitespace; cur is the run being read
RECURSIVE SplitFrom(_, _, _)
SplitFrom(s, i, cur) ==
    IF i > Len(s) THEN (IF cur = "" THEN {} ELSE {cur})
    ELSE IF IsSpaceCh(Ch(s, i))
         THEN (IF cur = "" THEN {} ELSE {cur}) \cup SplitFrom(s, i + 1, "")
         ELSE SplitFrom(s, i + 1, cur \o Ch(s, i))

Split(s) == SplitFrom(s, 1, "")

\* lines 443-445: the words of f"{title} {summary}"
Fingerprint(content_text) == Split(StripPunct(Lower(content_text)))

\* The fingerprints of the records of the pools, evaluated once.
PoolFingerprints ==
    [ content_text \in
        { Get(e, "title", "") \o " " \o Get(e, "summary", "") : e \in FeedEntries \cup BatchPool }
        \cup { l.text \o " " \o l.text : l \in SeekingAlphaLinkPool \cup CefConnectItemPool }
        \cup { a.title \o " " \o a.description : a \in NewsApiArticlePool }
      |-> Fingerprint(content_text) ]

\* lines 441-445: the content fingerprint of one article
ContentWords(article) ==
    LET title == OrElse(Get(article, "title", ""), "")
        summary == OrElse(Get(article, "summary", ""), "")
        content_text == title \o " " \o summary
    IN  IF content_text \in DOMAIN PoolFingerprints
        THEN PoolFingerprints[content_text]
        ELSE Fingerprint(content_text)

SimilarityThresholdNum == 7
SimilarityThresholdDen == 10

\* the comparison with a threshold of 0.8
TooSimilarAbove80(content_words, seen) ==
    LET intersection == Cardinality(content_words \cap seen)
        union == Cardinality(content_words \cup seen)
    IN  union > 0 /\ 10 * intersection > 8 * union

\* lines 451-455: intersection / union > 0.7, and 0 when the union is empty.  The
\* quotient of two small integers is compared exactly: a float division is correctly
\* rounded, and 7/10 rounds to the literal 0.7.
TooSimilar(content_words, seen) ==
    LET intersection == Cardinality(content_words \cap seen)
        union == Cardinality(content_words \cup seen)
    IN  union > 0 /\ SimilarityThresholdDen * intersection > SimilarityThresholdNum * union

RECURSIVE DedupFrom(_, _, _)

\* the fingerprint of a dropped article kept in seen_content as well
DedupAgainstAll(articles, k, seen_content) ==
    IF k > Len(articles) THEN <<>>
    ELSE LET content_words == ContentWords(articles[k])
             is_duplicate == \E seen \in seen_content : TooSimilar(content_words, seen)
         IN  (IF is_duplicate THEN <<>> ELSE <<articles[k]>>)
             \o DedupFrom(articles, k + 1, seen_content \cup {content_words})

\* the loop of lines 439-461 from the k-th article on
DedupFrom(articles, k, seen_content) ==
    IF k > Len(articles) THEN <<>>
    ELSE LET content_words == ContentWords(articles[k])
             is_duplicate == \E seen \in seen_content : TooSimilar(content_words, seen)
         IN  IF is_duplicate
             THEN DedupFrom(articles, k + 1, seen_content)
             ELSE <<articles[k]>> \o DedupFrom(articles, k + 1, seen_content \cup {content_words})

\* the list read from its end: of two similar articles the later one is kept
DedupLastWins(articles) ==
    LET Reverse(list) == [ k \in 1..Len(list) |-> list[Len(list) + 1 - k] ]
    IN  Reverse(DedupFrom(Reverse(articles), 1, {}))

advanced_deduplication(articles) == DedupFrom(articles, 1, {})

(***************************************************************************)
(* CEFNewsFetcher.process_articles and the sort of fetch_all_news.         *)
(***************************************************************************)
RelevanceThreshold == 5
PriorityScale == 5

\* line 473
HasEssentialFields(raw_article) == {"title", "url", "published_at"} \subseteq DOMAIN raw_article

\* raw_article['id'] or raw_article['source'] raises KeyError (lines 486, 491)
Raises(raw_article) == ~ ({"id", "source"} \subseteq DOMAIN raw_article)

\* lines 477-500: the EnhancedNewsArticle built from a raw article
NewsArticle(raw_article) ==
    LET c == enhanced_classify_article(
                 OrElse(Get(raw_article, "title", ""), ""),
                 OrElse(Get(raw_article, "content", Get(raw_article, "summary", "")), ""))
    IN  [ id |-> raw_article.id,
          title |-> raw_article.title,
          summary |-> Get(raw_article, "summary", ""),
          content |-> Get(raw_article, "content", ""),
          url |-> raw_article.url,
          source |-> raw_article.source,
          published_at |-> raw_article.published_at,
          category |-> c.category,
          priority_score |-> c.relevance * PriorityScale,
          sentiment_score |-> c.sentiment,
          relevance_score |-> c.relevance,
          tickers |-> c.tickers,
          fund_names |-> <<>>,
          activist_mentions |-> c.activists ]

\* the filter with the relevance threshold alone, at 0.5
RelevantAboveHalf(article) == article.relevance_score > 50

\* line 503
Relevant(article) ==
    \/ article.relevance_score > RelevanceThreshold
    \/ article.tickers # <<>>
    \/ article.activist_mentions # <<>>

RECURSIVE ProcessFrom(_, _)

\* an article that raised ends the loop
AbortBatch(raw_articles, k) == <<>>

\* lines 506-508: the exception is logged and the loop goes on with the next article
OnProcessError(raw_articles, k) == ProcessFrom(raw_articles, k + 1)

\* the loop of lines 470-508 from the k-th raw article on
ProcessFrom(raw_articles, k) ==
    IF k > Len(raw_articles) THEN <<>>
    ELSE LET raw_article == raw_articles[k]
         IN  IF ~ HasEssentialFields(raw_article) THEN ProcessFrom(raw_articles, k + 1)
             ELSE IF Raises(raw_article) THEN OnProcessError(raw_articles, k)
             ELSE (IF Relevant(NewsArticle(raw_article))
                   THEN <<NewsArticle(raw_article)>>
                   ELSE <<>>) \o ProcessFrom(raw_articles, k + 1)

process_articles(raw_articles) == ProcessFrom(raw_articles, 1)

\* an order that also moves x before an article of equal priority
BeforeOrEqual(x, y) == x.priority_score >= y.priority_score

\* x goes before y under sort(key=priority_score, reverse=True)
Before(x, y) == x.priority_score > y.priority_score

\* one article put into a sorted list behind every article it does not go before
RECURSIVE Insert(_, _)
Insert(sorted, x) ==
    IF sorted = <<>> THEN <<x>>
    ELSE IF Before(x, Head(sorted)) THEN <<x>> \o sorted
    ELSE <<Head(sorted)>> \o Insert(Tail(sorted), x)

\* list.sort(key=lambda x: x.priority_score, reverse=True): a stable sort
RECURSIVE SortFrom(_, _, _)
SortFrom(list, k, sorted) ==
    IF k > Len(list) THEN sorted ELSE SortFrom(list, k + 1, Insert(sorted, list[k]))

SortByPriority(list) == SortFrom(list, 1, <<>>)

(***************************************************************************)
(* The source adapters.  Each takes the seen-id cache and the call number  *)
(* n, and yields the records it delivers, the cache it leaves and the      *)
(* pauses and requests it made.                                            *)
(***************************************************************************)
FeedEntryLimit == 10
SeekingAlphaLimit == 5
CefConnectLimit == 10
FeedPause == 2
ScrapePause == 3
ApiPause == 2
StatusOk == 200

\* setup_rss_feeds: the first two rows of the feed table, in table order
rss_feeds ==
    << [ name |-> "businesswire_financial",
         url |-> "https://feed.businesswire.com/rss/home/?rss=G1QFDERJXkJeGVtYXg==" ],
       [ name |-> "prnewswire_financial",
         url |-> "https://www.prnewswire.com/apac/rss/financial-services-latest-news/financial-services-latest-news-list.rss" ] >>

SeekingAlphaUrl == "https://seekingalpha.com/etfs-and-funds/closed-end-funds"
CefConnectUrl == "https://www.cefconnect.com/news"
NewsApiUrl == "https://newsapi.org/v2/everything"

\* fetch_enhanced_newsapi: the first two queries of the query list, in list order
queries == << "closed-end fund OR \"closed end fund\"", "CEF discount OR \"premium to NAV\"" >>

\* _parse_date: the first date field the entry carries, None when it carries none
ParseDate(entry) ==
    IF "published" \in DOMAIN entry THEN entry.published
    ELSE IF "updated" \in DOMAIN entry THEN entry.updated
    ELSE None

\* parse_rss_entry: out is <<>> for None and <<article_data>> otherwise
parse_rss_entry(entry, source, cache, n) ==
    LET parsed == ParseDate(entry)
        published_at == IF parsed = None THEN Now(n) ELSE <<"iso", parsed>>
        article_id == Md5(Get(entry, "link", "") \o Get(entry, "title", ""))
        url == Get(entry, "link", "")
        summary == Get(entry, "summary", "")
        content == IF Get(entry, "content", <<>>) # <<>>
                   THEN Get(entry.content[1], "value", "")
                   ELSE summary
    IN  IF article_id \in cache THEN [ out |-> <<>>, cache |-> cache ]
        ELSE IF ~ Truthy(url) THEN [ out |-> <<>>, cache |-> cache \cup {article_id} ]
        ELSE [ out |-> << [ id |-> article_id,
                            title |-> OrElse(Get(entry, "title", ""), ""),
                            summary |-> OrElse(summary, ""),
                            content |-> OrElse(content, ""),
                            url |-> url,
                            source |-> source,
                            published_at |-> published_at ] >>,
               cache |-> cache \cup {article_id} ]

\* lines 152-155: the entries of one feed, from the k-th on
RECURSIVE ParseEntries(_, _, _, _, _)
ParseEntries(entries, k, source, cache, n) ==
    IF k > Len(entries) THEN [ articles |-> <<>>, cache |-> cache ]
    ELSE LET one == parse_rss_entry(entries[k], source, cache, n)
             rest == ParseEntries(entries, k + 1, source, one.cache, n)
         IN  [ articles |-> one.out \o rest.articles, cache |-> rest.cache ]

RECURSIVE FetchFeedsFrom(_, _, _, _)

\* a feed that raised ends the loop
StopOnFeedError(responses, f, cache, n) == [ articles |-> <<>>, cache |-> cache, log |-> <<>> ]

\* a feed that raised is asked once more before the loop goes on
RetryFeed(responses, f, cache, n) ==
    LET rest == FetchFeedsFrom(responses, f + 1, cache, n)
    IN  [ rest EXCEPT !.log = << <<"sleep", FeedPause>>, <<"request", <<rss_feeds[f].url, None>> >> >> \o @ ]

\* lines 157-159: a feed that raised is logged and the loop goes on with the next feed
OnFeedError(responses, f, cache, n) == FetchFeedsFrom(responses, f + 1, cache, n)

\* the loop of lines 143-159 from the f-th feed on
FetchFeedsFrom(responses, f, cache, n) ==
    IF f > Len(rss_feeds) THEN [ articles |-> <<>>, cache |-> cache, log |-> <<>> ]
    ELSE LET made == << <<"sleep", FeedPause>>, <<"request", <<rss_feeds[f].url, None>> >> >>
         IN  IF responses[f].raises
             THEN LET rest == OnFeedError(responses, f, cache, n)
                  IN  [ articles |-> rest.articles, cache |-> rest.cache,
                        log |-> made \o rest.log ]
             ELSE LET here == ParseEntries(Take(responses[f].entries, FeedEntryLimit), 1,
                                           rss_feeds[f].name, cache, n)
                      rest == FetchFeedsFrom(responses, f + 1, here.cache, n)
                  IN  [ articles |-> here.articles \o rest.articles, cache |-> rest.cache,
                        log |-> made \o rest.log ]

fetch_rss_feeds(responses, cache, n) == FetchFeedsFrom(responses, 1, cache, n)

\* the index of the "/" that ends scheme://host in an absolute url
HostEnd(url) ==
    LET start == CHOOSE i \in 1..Len(url) : SubSeq(url, i, i + 2) = "://"
    IN  CHOOSE j \in (start + 3)..Len(url) :
            /\ Ch(url, j) = "/"
            /\ \A m \in (start + 3)..(j - 1) : Ch(url, m) # "/"

\* urllib.parse.urljoin(base, href) for an absent, an absolute and a root-relative href
UrlJoin(base, href) ==
    IF ~ Truthy(href) THEN base
    ELSE IF Contains(href, "://") THEN href
    ELSE SubSeq(base, 1, HostEnd(base) - 1) \o href

\* lines 242-260: the links of the Seeking Alpha page, from the k-th on
RECURSIVE SeekingAlphaLinks(_, _, _, _)
SeekingAlphaLinks(links, k, cache, n) ==
    IF k > Len(links) THEN [ articles |-> <<>>, cache |-> cache ]
    ELSE LET article_url == UrlJoin(SeekingAlphaUrl, links[k].href)
             title == links[k].text
             article_id == Md5(article_url)
             fresh == article_id \notin cache
             rest == SeekingAlphaLinks(links, k + 1, cache \cup {article_id}, n)
         IN  [ articles |->
                   (IF fresh
                    THEN << [ id |-> article_id, title |-> title, url |-> article_url,
                              source |-> "seeking_alpha", published_at |-> Now(n),
                              summary |-> title, content |-> title ] >>
                    ELSE <<>>) \o rest.articles,
               cache |-> rest.cache ]

scrape_seeking_alpha_cef(response, cache, n) ==
    LET made == << <<"sleep", ScrapePause>>, <<"request", <<SeekingAlphaUrl, None>> >> >>
    IN  IF response.raises \/ response.status_code # StatusOk
        THEN [ articles |-> <<>>, cache |-> cache, log |-> made ]
        ELSE LET got == SeekingAlphaLinks(Take(response.body, SeekingAlphaLimit), 1, cache, n)
             IN  [ articles |-> got.articles, cache |-> got.cache, log |-> made ]

\* lines 283-304: the news items of the CEFConnect page, from the k-th on.  An item is
\* its title element (name h3, h2 or a; name None when it has none).
RECURSIVE CefConnectItems(_, _, _, _)
CefConnectItems(items, k, cache, n) ==
    IF k > Len(items) THEN [ articles |-> <<>>, cache |-> cache ]
    ELSE LET title_elem == items[k]
             found == title_elem.name # None
             link == IF found /\ title_elem.name = "a" THEN title_elem.href ELSE None
             article_url == UrlJoin(CefConnectUrl, link)
             article_id == Md5(article_url)
             taken == found /\ Truthy(link) /\ article_id \notin cache
             rest == CefConnectItems(items, k + 1,
                                     IF taken THEN cache \cup {article_id} ELSE cache, n)
         IN  [ articles |->
                   (IF taken
                    THEN << [ id |-> article_id, title |-> title_elem.text,
                              url |-> article_url, source |-> "cefconnect",
                              published_at |-> Now(n), summary |-> title_elem.text,
                              content |-> title_elem.text ] >>
                    ELSE <<>>) \o rest.articles,
               cache |-> rest.cache ]

\* the page asked for without the pause before it
ScrapeCefConnectNoPause(response, cache, n) ==
    LET made == << <<"request", <<CefConnectUrl, None>> >> >>
    IN  IF response.raises \/ response.status_code # StatusOk
        THEN [ articles |-> <<>>, cache |-> cache, log |-> made ]
        ELSE LET got == CefConnectItems(Take(response.body, CefConnectLimit), 1, cache, n)
             IN  [ articles |-> got.articles, cache |-> got.cache, log |-> made ]

scrape_cefconnect(response, cache, n) ==
    LET made == << <<"sleep", ScrapePause>>, <<"request", <<CefConnectUrl, None>> >> >>
    IN  IF response.raises \/ response.status_code # StatusOk
        THEN [ articles |-> <<>>, cache |-> cache, log |-> made ]
        ELSE LET got == CefConnectItems(Take(response.body, CefConnectLimit), 1, cache, n)
             IN  [ articles |-> got.articles, cache |-> got.cache, log |-> made ]

\* process_newsapi_articles, from the k-th article on
RECURSIVE ProcessNewsApiFrom(_, _, _)
ProcessNewsApiFrom(articles, k, cache) ==
    IF k > Len(articles) THEN [ articles |-> <<>>, cache |-> cache ]
    ELSE LET article == articles[k]
             usable == Truthy(Get(article, "title", None)) /\ Truthy(Get(article, "url", None))
             article_id == Md5(Get(article, "url", "") \o Get(article, "title", ""))
             taken == usable /\ article_id \notin cache
             rest == ProcessNewsApiFrom(articles, k + 1,
                                        IF taken THEN cache \cup {article_id} ELSE cache)
         IN  [ articles |->
                   (IF taken
                    THEN << [ id |-> article_id,
                              title |-> Get(article, "title", ""),
                              summary |-> Get(article, "description", ""),
                              content |-> Get(article, "content", ""),
                              url |-> Get(article, "url", ""),
                              source |-> "newsapi",
                              published_at |-> Get(article, "publishedAt", "") ] >>
                    ELSE <<>>) \o rest.articles,
               cache |-> rest.cache ]

process_newsapi_articles(articles, cache) == ProcessNewsApiFrom(articles, 1, cache)

\* the loop of lines 379-400 from the q-th query on: the raw articles of the queries
\* that answered 200, and the pauses and requests made
RECURSIVE QueryFrom(_, _)

\* a query that raised or did not answer 200 ends the loop
QueryStopOnError(responses, q) ==
    IF q > Len(queries) THEN [ articles |-> <<>>, log |-> <<>> ]
    ELSE LET made == << <<"sleep", ApiPause>>, <<"request", <<NewsApiUrl, queries[q]>> >> >>
         IN  IF responses[q].raises \/ responses[q].status_code # StatusOk
             THEN [ articles |-> <<>>, log |-> made ]
             ELSE LET rest == QueryFrom(responses, q + 1)
                  IN  [ articles |-> responses[q].body \o rest.articles,
                        log |-> made \o rest.log ]

QueryFrom(responses, q) ==
    IF q > Len(queries) THEN [ articles |-> <<>>, log |-> <<>> ]
    ELSE LET made == << <<"sleep", ApiPause>>, <<"request", <<NewsApiUrl, queries[q]>> >> >>
             here == IF responses[q].raises \/ responses[q].status_code # StatusOk
                     THEN <<>>
                     ELSE responses[q].body
             rest == QueryFrom(responses, q + 1)
         IN  [ articles |-> here \o rest.articles, log |-> made \o rest.log ]

\* the key never taken to be unset
KeyAlwaysSet(key) == FALSE

\* line 364: not self.api_keys.get('newsapi')
KeyUnset(key) == ~ Truthy(key)

fetch_enhanced_newsapi(key, responses, cache) ==
    IF KeyUnset(key) THEN [ articles |-> <<>>, cache |-> cache, log |-> <<>> ]
    ELSE LET asked == QueryFrom(responses, 1)
             got == process_newsapi_articles(asked.articles, cache)
         IN  [ articles |-> got.articles, cache |-> got.cache, log |-> asked.log ]

(***************************************************************************)
(* What the sources answer.  A feed answers with entries or raises; a page *)
(* or the search API answers with a status and a body, or raises (a        *)
(* timeout, a transport error).                                            *)
(***************************************************************************)
SeqsUpTo(S, n) == UNION { [1..k -> S] : k \in 0..n }

Raised == [ raises |-> TRUE, status_code |-> 0, body |-> <<>> ]

FeedResponses ==
    { [ raises |-> TRUE, entries |-> <<>> ] }
    \cup { [ raises |-> FALSE, entries |-> e ] : e \in SeqsUpTo(FeedEntries, MaxEntries) }

NotFound == [ raises |-> FALSE, status_code |-> 404, body |-> <<>> ]

Answer(body) == [ raises |-> FALSE, status_code |-> StatusOk, body |-> body ]

SeekingAlphaResponses ==
    { Raised, NotFound, Answer(<<>>) } \cup { Answer(<<l>>) : l \in SeekingAlphaLinkPool }

CefConnectResponses == { Raised, NotFound } \cup { Answer(<<i>>) : i \in CefConnectItemPool }

\* what the search API finds for the q-th query: the first article for the first query,
\* the same article and another one for the queries after it
NewsApiFound(q) ==
    LET first == CHOOSE a \in NewsApiArticlePool : a.url = ArticleUrl
        other == CHOOSE a \in NewsApiArticlePool : a.url # ArticleUrl
    IN  IF q = 1 THEN <<first>> ELSE <<first, other>>

NewsApiResponses(q) == { Raised, NotFound, Answer(NewsApiFound(q)) }

Worlds ==
    [ feeds : [1..Len(rss_feeds) -> FeedResponses],
      seeking_alpha : SeekingAlphaResponses,
      cefconnect : CefConnectResponses,
      newsapi : { r \in [1..Len(queries) -> UNION { NewsApiResponses(q) : q \in 1..Len(queries) }] :
                      \A q \in 1..Len(queries) : r[q] \in NewsApiResponses(q) } ]

(***************************************************************************)
(* fetch_all_news, one action per step, on one CEFNewsFetcher instance.    *)
(***************************************************************************)
Init ==
    /\ api_key \in {None, "key"}
    /\ world \in Worlds
    /\ KeyUnset(api_key) => \A q \in 1..Len(queries) : world.newsapi[q] = Raised
    /\ pc = "idle"
    /\ runs = 0
    /\ article_cache = {}
    /\ all_articles = <<>>
    /\ unique_articles = <<>>
    /\ processed_articles = <<>>
    /\ returned = <<>>
    /\ log = <<>>
    /\ arg_title = None
    /\ arg_content = None
    /\ classified = [ category |-> "", relevance |-> -1, sentiment |-> 0,
                      tickers |-> <<>>, activists |-> <<>> ]
    /\ IdleFilings
    /\ IdlePanel

\* the seen-id cache kept from the call before
KeptCache(cache) == cache

\* line 514: the seen-id cache at the start of a call
FreshCache(cache) == {}

\* lines 514-517
Begin ==
    /\ pc \in {"idle", "done"}
    /\ runs < MaxRuns
    /\ runs' = runs + 1
    /\ article_cache' = FreshCache(article_cache)
    /\ all_articles' = <<>>
    /\ unique_articles' = <<>>
    /\ processed_articles' = <<>>
    /\ log' = <<>>
    /\ pc' = "rss"
    /\ UNCHANGED <<api_key, world, returned>>
    /\ UNCHANGED <<classifyVars, filingsVars, panelVars>>

\* the records of an adapter put in front of those gathered so far
AdapterPrepend(at, got, next) ==
    /\ pc = at
    /\ all_articles' = got.articles \o all_articles
    /\ article_cache' = got.cache
    /\ log' = log \o got.log
    /\ pc' = next
    /\ UNCHANGED <<api_key, world, runs, unique_articles, processed_articles, returned>>
    /\ UNCHANGED <<classifyVars, filingsVars, panelVars>>

\* one adapter called from fetch_all_news: its records are appended to all_articles
Adapter(at, got, next) ==
    /\ pc = at
    /\ all_articles' = all_articles \o got.articles
    /\ article_cache' = got.cache
    /\ log' = log \o got.log
    /\ pc' = next
    /\ UNCHANGED <<api_key, world, runs, unique_articles, processed_articles, returned>>
    /\ UNCHANGED <<classifyVars, filingsVars, panelVars>>

\* lines 520-525
FetchRss == Adapter("rss", fetch_rss_feeds(world.feeds, article_cache, runs), "seeking_alpha")

\* the Seeking Alpha step with the error of the page passed on to the caller of
\* fetch_all_news: the call does not go on
ScrapeSeekingAlphaUncaught ==
    /\ ~ world.seeking_alpha.raises
    /\ Adapter("seeking_alpha",
               scrape_seeking_alpha_cef(world.seeking_alpha, article_cache, runs), "cefconnect")

\* lines 528-533
ScrapeSeekingAlpha ==
    Adapter("seeking_alpha",
            scrape_seeking_alpha_cef(world.seeking_alpha, article_cache, runs), "cefconnect")

\* lines 535-540
ScrapeCefConnect ==
    Adapter("cefconnect", scrape_cefconnect(world.cefconnect, article_cache, runs), "newsapi")

\* lines 543-548
FetchNewsApi ==
    Adapter("newsapi", fetch_enhanced_newsapi(api_key, world.newsapi, article_cache), "dedup")

\* lines 551-552
Dedup ==
    /\ pc = "dedup"
    /\ unique_articles' = advanced_deduplication(all_articles)
    /\ pc' = "process"
    /\ UNCHANGED <<api_key, world, runs, article_cache, all_articles, processed_articles,
                   returned, log>>
    /\ UNCHANGED <<classifyVars, filingsVars, panelVars>>

\* lines 555-556
Process ==
    /\ pc = "process"
    /\ processed_articles' = process_articles(unique_articles)
    /\ pc' = "sort"
    /\ UNCHANGED <<api_key, world, runs, article_cache, all_articles, unique_articles,
                   returned, log>>
    /\ UNCHANGED <<classifyVars, filingsVars, panelVars>>

\* lines 559-561
SortAndReturn ==
    /\ pc = "sort"
    /\ processed_articles' = SortByPriority(processed_articles)
    /\ returned' = Append(returned, processed_articles')
    /\ pc' = "done"
    /\ UNCHANGED <<api_key, world, runs, article_cache, all_articles, unique_articles, log>>
    /\ UNCHANGED <<classifyVars, filingsVars, panelVars>>

Next ==
    \/ Begin
    \/ FetchRss
    \/ ScrapeSeekingAlpha
    \/ ScrapeCefConnect
    \/ FetchNewsApi
    \/ Dedup
    \/ Process
    \/ SortAndReturn

Spec == Init /\ [][Next]_vars

\* no source delivers a record: each raised, answered with another status than 200, or
\* answered with no entry, no link, no article
Barren(w) ==
    /\ \A f \in 1..Len(rss_feeds) : w.feeds[f].entries = <<>>
    /\ w.seeking_alpha.body = <<>>
    /\ \A k \in 1..Len(w.cefconnect.body) : w.cefconnect.body[k].name # "a"
    /\ \A q \in 1..Len(queries) : w.newsapi[q].body = <<>>

\* the calls in which no source delivers a record
InitOutage == Init /\ Barren(world)

\* fetch_all_news is straight-line code run by one thread: a step that can be taken is
\* taken
SpecOutage == InitOutage /\ [][Next]_vars /\ WF_vars(Next)

(***************************************************************************)
(* The adapters of one call as a function of what the sources answer.      *)
(***************************************************************************)
\* the records the first three adapters deliver, and the cache they leave
BeforeNewsApi(w, n) ==
    LET rss == fetch_rss_feeds(w.feeds, {}, n)
        sa == scrape_seeking_alpha_cef(w.seeking_alpha, rss.cache, n)
        cef == scrape_cefconnect(w.cefconnect, sa.cache, n)
    IN  [ articles |-> rss.articles \o sa.articles \o cef.articles, cache |-> cef.cache ]

\* the records all adapters deliver
Gathered(w, key, n) ==
    LET first == BeforeNewsApi(w, n)
    IN  first.articles \o fetch_enhanced_newsapi(key, w.newsapi, first.cache).articles

\* w with every feed that raises taken out of it (it answers with no entry)
WithoutFailedFeeds(w) ==
    [ w EXCEPT !.feeds = [ f \in DOMAIN w.feeds |->
                             IF w.feeds[f].raises
                             THEN [ raises |-> FALSE, entries |-> <<>> ]
                             ELSE w.feeds[f] ] ]

\* the last adapter has returned and deduplication is about to start
AdaptersDone == pc = "dedup"

IsNewsApiRequest(event) == event[1] = "request" /\ event[2] \in { <<NewsApiUrl, q>> : q \in {queries[k] : k \in 1..Len(queries)} }

\* an article without the time it was fetched at
Undated(article) == [ article EXCEPT !.published_at = "" ]

SameArticles(xs, ys) ==
    /\ Len(xs) = Len(ys)
    /\ \A k \in 1..Len(xs) : Undated(xs[k]) = Undated(ys[k])

\* C4: two raw records with the same URL and the same title leave at most one record
\* after normalization, whichever adapters delivered them.
C4_OnePerUrlAndTitle ==
    AdaptersDone =>
        \A i, j \in 1..Len(all_articles) :
            (i < j /\ all_articles[i].url = all_articles[j].url)
                => all_articles[i].title # all_articles[j].title

\* C13: no record with a missing or empty url, and none with a missing or empty title,
\* is among the records the adapters deliver.
C13_NoMalformedSurvives ==
    \A k \in 1..Len(all_articles) :
        /\ Truthy(Get(all_articles[k], "url", None))
        /\ Truthy(Get(all_articles[k], "title", None))

\* C6: when a feed raises, the records of every other feed and of the other adapters
\* enter deduplication exactly as they would with the failing feed absent.
C6_FeedFailureIsolated ==
    AdaptersDone => all_articles = Gathered(WithoutFailedFeeds(world), api_key, runs)

\* C6 witness: the first feed raised and a record of the second feed reached deduplication
C6_Witness ==
    /\ pc = "dedup"
    /\ world.feeds[1].raises
    /\ \E k \in 1..Len(all_articles) : all_articles[k].source = rss_feeds[2].name

\* C7: with the search-API key unset the search-API adapter makes no request and
\* delivers nothing, and the call goes on with the records of the other adapters.
C7_EmptyKey ==
    api_key = None =>
        /\ \A k \in 1..Len(log) : ~ IsNewsApiRequest(log[k])
        /\ \A k \in 1..Len(all_articles) : all_articles[k].source # "newsapi"
        /\ AdaptersDone => all_articles = BeforeNewsApi(world, runs).articles
        /\ pc = "newsapi" => ENABLED FetchNewsApi

\* C7 witness: a call with the key unset returned the articles of the other adapters
C7_Witness == api_key = None /\ pc = "done" /\ Len(returned[Len(returned)]) >= 2

\* C8: the seen-id set is empty when the adapters of a call start, and two consecutive
\* calls fed the same answers return the same articles (the fetch time apart).
C8_CachePerRun ==
    /\ pc = "rss" => article_cache = {}
    /\ \A r \in 1..(Len(returned) - 1) : SameArticles(returned[r], returned[r + 1])

\* C8 witness: the second call returned articles, among them one a feed delivered
C8_Witness ==
    /\ Len(returned) = 2
    /\ \E k \in 1..Len(returned[2]) : returned[2][k].source = rss_feeds[1].name

\* the requests of the log (url and q parameter, None without one), in the order they
\* were made
Requests(events) ==
    LET made == SelectSeq(events, LAMBDA event : event[1] = "request")
    IN  [ k \in 1..Len(made) |-> made[k][2] ]

\* the requests of one call in the order of the adapters: the feeds in table order, the
\* two pages, and with a key the queries in list order
RequestsInOrder(key) ==
    [ f \in 1..Len(rss_feeds) |-> <<rss_feeds[f].url, None>> ]
    \o << <<SeekingAlphaUrl, None>>, <<CefConnectUrl, None>> >>
    \o (IF Truthy(key) THEN [ q \in 1..Len(queries) |-> <<NewsApiUrl, queries[q]>> ] ELSE <<>>)

\* the place of the adapter that delivers records of this source
AdapterRank(source) ==
    IF \E f \in 1..Len(rss_feeds) : rss_feeds[f].name = source
    THEN CHOOSE f \in 1..Len(rss_feeds) : rss_feeds[f].name = source
    ELSE IF source = "seeking_alpha" THEN Len(rss_feeds) + 1
    ELSE IF source = "cefconnect" THEN Len(rss_feeds) + 2
    ELSE Len(rss_feeds) + 3

Prefix(xs, ys) == Len(xs) <= Len(ys) /\ xs = SubSeq(ys, 1, Len(xs))

\* C22: the adapters run one at a time in a fixed order (feeds in table order, Seeking
\* Alpha, CEFConnect, search API), their records are concatenated in that order, and
\* deduplication, then classification, then the sort start only after the last adapter.
C22_AdapterOrder ==
    /\ Prefix(Requests(log), RequestsInOrder(api_key))
    /\ \A i, j \in 1..Len(all_articles) :
           i < j => AdapterRank(all_articles[i].source) <= AdapterRank(all_articles[j].source)
    /\ pc \in {"dedup", "process", "sort", "done"} => Requests(log) = RequestsInOrder(api_key)
    /\ pc \in {"rss", "seeking_alpha", "cefconnect", "newsapi", "dedup"}
           => unique_articles = <<>> /\ processed_articles = <<>>
    /\ pc = "process" => processed_articles = <<>>
    /\ pc \in {"sort", "done"} => Len(processed_articles) <= Len(unique_articles)
    /\ pc = "done" => returned[runs] = processed_articles

\* C22 witness: a call with the key set gathered records of a feed, of both pages and of
\* the search API
C22_Witness ==
    /\ pc = "dedup"
    /\ \A source \in {rss_feeds[1].name, "seeking_alpha", "cefconnect", "newsapi"} :
           \E k \in 1..Len(all_articles) : all_articles[k].source = source

\* C23: no adapter retries: in one call every feed url, every page and every query is
\* requested at most once, whether the request succeeds or fails.
C23_NoRetries ==
    LET made == Requests(log)
    IN  \A i, j \in 1..Len(made) : i < j => made[i] # made[j]

\* C23 witness: a feed, a page and a query failed, and the call made each request once
C23_Witness ==
    /\ pc = "dedup"
    /\ api_key # None
    /\ world.feeds[1].raises
    /\ world.seeking_alpha.raises
    /\ world.cefconnect.status_code # StatusOk
    /\ world.newsapi[1].raises
    /\ Requests(log) = RequestsInOrder(api_key)

\* the pause of the adapter that makes this request
PauseBefore(request) ==
    IF request[1] = NewsApiUrl THEN ApiPause
    ELSE IF request[1] \in {SeekingAlphaUrl, CefConnectUrl} THEN ScrapePause
    ELSE FeedPause

\* C24: every request of a feed, a page or a query comes directly after a pause of its
\* own adapter, so no two requests of a call follow each other without a pause.
C24_PauseBeforeRequest ==
    \A k \in 1..Len(log) :
        log[k][1] = "request" =>
            /\ k > 1
            /\ log[k - 1][1] = "sleep"
            /\ log[k - 1][2] = PauseBefore(log[k][2])

\* C24 witness: a call with the key set made every request, each after a pause
C24_Witness ==
    /\ pc = "dedup"
    /\ Requests(log) = RequestsInOrder(api_key)
    /\ Len(log) = 2 * (Len(rss_feeds) + 2 + Len(queries))

\* the articles of the queries that answered 200, in query order
RECURSIVE Merged(_, _)
Merged(responses, q) ==
    IF q > Len(responses) THEN <<>>
    ELSE (IF ~ responses[q].raises /\ responses[q].status_code = StatusOk
          THEN responses[q].body
          ELSE <<>>) \o Merged(responses, q + 1)

\* C25: with a key the search-API adapter makes one request for each query, in list
\* order; a query that raises or does not answer 200 adds nothing and does not stop the
\* others, and the articles of the queries that answered are merged into its result.
C25_OneRequestPerQuery ==
    (api_key # None /\ pc = "dedup") =>
        LET first == BeforeNewsApi(world, runs)
        IN  /\ SelectSeq(Requests(log), LAMBDA request : request[1] = NewsApiUrl)
                   = [ q \in 1..Len(queries) |-> <<NewsApiUrl, queries[q]>> ]
            /\ all_articles
                   = first.articles
                     \o process_newsapi_articles(Merged(world.newsapi, 1), first.cache).articles

\* C25 witness: the first query raised, the second answered, and its article is in the
\* result
C25_Witness ==
    /\ pc = "dedup"
    /\ api_key # None
    /\ world.newsapi[1].raises
    /\ world.newsapi[2].body # <<>>
    /\ \E k \in 1..Len(all_articles) :
           /\ all_articles[k].source = "newsapi"
           /\ all_articles[k].url = world.newsapi[2].body[1].url

\* every source failed: the feeds and the pages raised, the search API raised
AllSourcesFailed ==
    /\ \A f \in 1..Len(rss_feeds) : world.feeds[f].raises
    /\ world.seeking_alpha.raises
    /\ world.cefconnect.raises
    /\ \A q \in 1..Len(queries) : world.newsapi[q].raises

\* C12: fetch_all_news never raises: every call that starts returns a list, and the
\* list is empty when the adapters failed or delivered no record.
C12_NeverRaises ==
    /\ [](pc = "done" => Len(returned) = runs /\ returned[runs] = <<>>)
    /\ (pc = "rss" ~> pc = "done")

\* C12 witness: a call with the key set in which every source failed has returned
C12_Witness ==
    /\ pc = "done"
    /\ api_key # None
    /\ AllSourcesFailed
    /\ returned[Len(returned)] = <<>>

(***************************************************************************)
(* Deduplication, classification and sort as a function of the list        *)
(* handed to them: SpecBatch draws all_articles and runs the steps of      *)
(* fetch_all_news that follow the adapters.                                *)
(***************************************************************************)
InitBatch ==
    /\ api_key = None
    /\ world = <<>>
    /\ pc = "dedup"
    /\ runs = 1
    /\ article_cache = {}
    /\ all_articles \in SeqsUpTo(BatchPool, MaxArticles)
    /\ unique_articles = <<>>
    /\ processed_articles = <<>>
    /\ returned = <<>>
    /\ log = <<>>
    /\ arg_title = None
    /\ arg_content = None
    /\ classified = [ category |-> "", relevance |-> -1, sentiment |-> 0,
                      tickers |-> <<>>, activists |-> <<>> ]
    /\ IdleFilings
    /\ IdlePanel

NextBatch ==
    \/ Dedup
    \/ Process
    \/ SortAndReturn

SpecBatch == InitBatch /\ [][NextBatch]_vars

\* |A \cap B| / |A \cup B| <= 0.7
JaccardAtMostThreshold(a, b) ==
    SimilarityThresholdDen * Cardinality(a \cap b) <= SimilarityThresholdNum * Cardinality(a \cup b)

PairwiseDissimilar(articles) ==
    LET words == [ k \in 1..Len(articles) |-> ContentWords(articles[k]) ]
    IN  \A i, j \in 1..Len(articles) : i < j => JaccardAtMostThreshold(words[i], words[j])

\* C1: any two distinct articles that survive advanced_deduplication, and so any two
\* articles of the returned list, have title+summary token sets of Jaccard similarity
\* at most 0.7.
C1_DedupBound ==
    /\ pc # "dedup" => PairwiseDissimilar(unique_articles)
    /\ pc = "done" => PairwiseDissimilar(processed_articles)

\* C1 witness: a near-duplicate was dropped, and two survivors are exactly 0.7 similar
C1_Witness ==
    /\ pc = "process"
    /\ Len(unique_articles) < Len(all_articles)
    /\ \E i, j \in 1..Len(unique_articles) :
           LET a == ContentWords(unique_articles[i])
               b == ContentWords(unique_articles[j])
           IN  /\ i < j
               /\ SimilarityThresholdDen * Cardinality(a \cap b)
                      = SimilarityThresholdNum * Cardinality(a \cup b)
               /\ a # {}

\* xs can be had from ys by leaving elements out
RECURSIVE IsSubsequence(_, _)
IsSubsequence(xs, ys) ==
    IF xs = <<>> THEN TRUE
    ELSE IF ys = <<>> THEN FALSE
    ELSE IF Head(xs) = Head(ys) THEN IsSubsequence(Tail(xs), Tail(ys))
    ELSE IsSubsequence(xs, Tail(ys))

\* the article is in the list
Among(list, article) == \E k \in 1..Len(list) : list[k] = article

\* |A \cap B| / |A \cup B| > 0.7
NearDuplicates(a, b) == ~ JaccardAtMostThreshold(ContentWords(a), ContentWords(b))

\* C20: advanced_deduplication returns a subsequence of its input in input order that
\* starts with the first record, and a record it drops is a near-duplicate of a record
\* that came before it and was kept.
C20_FirstSeenWins ==
    pc = "process" =>
        /\ IsSubsequence(unique_articles, all_articles)
        /\ all_articles # <<>> => (unique_articles # <<>> /\ Head(unique_articles) = Head(all_articles))
        /\ \A j \in 1..Len(all_articles) :
               ~ Among(unique_articles, all_articles[j]) =>
                   \E i \in 1..(j - 1) :
                       /\ Among(unique_articles, all_articles[i])
                       /\ NearDuplicates(all_articles[i], all_articles[j])

\* C20 witness: of three records the second is a near-duplicate of the first and is the
\* one dropped
C20_Witness ==
    /\ pc = "process"
    /\ Len(all_articles) = 3
    /\ NearDuplicates(all_articles[1], all_articles[2])
    /\ all_articles[1] # all_articles[2]
    /\ unique_articles = <<all_articles[1], all_articles[3]>>

\* the articles of the list at the places of K, in list order
RECURSIVE AtPlaces(_, _, _)
AtPlaces(list, K, k) ==
    IF k > Len(list) THEN <<>>
    ELSE (IF k \in K THEN <<list[k]>> ELSE <<>>) \o AtPlaces(list, K, k + 1)

\* K holds the place j iff no article at an earlier place of K is more than 0.7 similar
\* to the article at j
AcceptedPlaces(list, K) ==
    LET words == [ k \in 1..Len(list) |-> ContentWords(list[k]) ]
    IN  \A j \in 1..Len(list) :
            j \in K <=> ~ \E i \in K : i < j /\ ~ JaccardAtMostThreshold(words[i], words[j])

\* C21: a record is dropped by advanced_deduplication iff it is more than 0.7 similar to
\* a record accepted before it; similarity to a dropped record drops nothing.
C21_DropIffSimilarToAccepted ==
    pc = "process" =>
        \E K \in SUBSET (1..Len(all_articles)) :
            /\ AcceptedPlaces(all_articles, K)
            /\ unique_articles = AtPlaces(all_articles, K, 1)

\* C21 witness: A accepted, B dropped as a duplicate of A, C similar to B and not to A
\* accepted
C21_Witness ==
    /\ pc = "process"
    /\ Len(all_articles) = 3
    /\ NearDuplicates(all_articles[1], all_articles[2])
    /\ NearDuplicates(all_articles[2], all_articles[3])
    /\ ~ NearDuplicates(all_articles[1], all_articles[3])
    /\ unique_articles = <<all_articles[1], all_articles[3]>>

\* the classification of a raw article
ClassOf(raw) ==
    enhanced_classify_article(OrElse(Get(raw, "title", ""), ""),
                              OrElse(Get(raw, "content", Get(raw, "summary", "")), ""))

PassesFilter(c) == c.relevance > RelevanceThreshold \/ c.tickers # <<>> \/ c.activists # <<>>

Processed == pc \in {"sort", "done"}

\* C2: a deduplicated record with the required fields is in the result of
\* process_articles iff relevance_score > 0.05 or tickers or activist_mentions is
\* non-empty; no returned article violates the predicate.
C2_FilterSound ==
    Processed =>
        /\ \A k \in 1..Len(unique_articles) :
               LET raw == unique_articles[k]
               IN  {"id", "title", "url", "source", "published_at"} \subseteq DOMAIN raw
                       => ((\E m \in 1..Len(processed_articles) :
                                processed_articles[m].id = raw.id)
                           <=> PassesFilter(ClassOf(raw)))
        /\ \A m \in 1..Len(processed_articles) :
               LET article == processed_articles[m]
               IN  \/ article.relevance_score > RelevanceThreshold
                   \/ article.tickers # <<>>
                   \/ article.activist_mentions # <<>>

\* C2 witness: one record was kept for its relevance alone and another was filtered out
C2_Witness ==
    /\ pc = "sort"
    /\ Len(processed_articles) < Len(unique_articles)
    /\ \E m \in 1..Len(processed_articles) :
           /\ processed_articles[m].tickers = <<>>
           /\ processed_articles[m].activist_mentions = <<>>

\* the place of the article with this id in the list that left the deduplicator
Arrival(id) == CHOOSE k \in 1..Len(unique_articles) : Get(unique_articles[k], "id", None) = id

\* C3: the returned list is in non-increasing order of priority_score, and articles of
\* equal priority_score are in the order in which they left the deduplicator.
C3_SortOrder ==
    pc = "done" =>
        \A i, j \in 1..Len(processed_articles) :
            i < j =>
                LET x == processed_articles[i]
                    y == processed_articles[j]
                IN  /\ x.priority_score >= y.priority_score
                    /\ x.priority_score = y.priority_score => Arrival(x.id) < Arrival(y.id)

\* C3 witness: the sort moved an article forward and kept two of equal priority in order
C3_Witness ==
    /\ pc = "done"
    /\ \E i, j \in 1..Len(processed_articles) :
           /\ i < j
           /\ Arrival(processed_articles[i].id) > Arrival(processed_articles[j].id)
    /\ \E i, j \in 1..Len(processed_articles) :
           /\ i < j
           /\ processed_articles[i].priority_score = processed_articles[j].priority_score

\* building the article of this raw article raises KeyError
LacksIdOrSource(raw) ==
    /\ {"title", "url", "published_at"} \subseteq DOMAIN raw
    /\ ("id" \notin DOMAIN raw \/ "source" \notin DOMAIN raw)

\* C11: a record whose article cannot be built (no id, no source) is left out of the
\* result of process_articles, every other record of the batch is classified and
\* filtered as if that record were absent: process_articles returns their articles.
C11_ProcessErrorIsolated ==
    pc = "sort" =>
        /\ processed_articles =
               process_articles(SelectSeq(unique_articles, LAMBDA raw : ~ LacksIdOrSource(raw)))
        /\ \A m \in 1..Len(processed_articles) :
               \E k \in 1..Len(unique_articles) :
                   /\ ~ LacksIdOrSource(unique_articles[k])
                   /\ Get(unique_articles[k], "id", None) = processed_articles[m].id

\* C11 witness: a record without id came first, one without source second, and the
\* record after them was classified and kept
C11_Witness ==
    /\ pc = "sort"
    /\ Len(unique_articles) = 3
    /\ "id" \notin DOMAIN unique_articles[1]
    /\ "source" \notin DOMAIN unique_articles[2]
    /\ Len(processed_articles) = 1
    /\ processed_articles[1].id = unique_articles[3].id

Has(list, x) == \E k \in 1..Len(list) : list[k] = x

\* the fund table of the dashboard, ticker to full legal name: the rows of two funds
\* that are also in cef_tickers
cef_funds == [ ASA |-> "ASA Gold and Precious Metals Limited", SWZ |-> "Swiss Helvetia Fund" ]

LowerFunds == [ ticker \in DOMAIN cef_funds |-> Lower(cef_funds[ticker]) ]

\* the raw article has every field process_articles reads
Complete(raw) == {"id", "title", "url", "source", "published_at"} \subseteq DOMAIN raw

\* the text of the raw article has the full legal name of the fund
NamesFund(raw, ticker) ==
    Contains(ClassifyText(raw.title, Get(raw, "content", Get(raw, "summary", ""))),
             LowerFunds[ticker])

\* C17: a record whose text has the full legal name of a fund becomes an article with
\* that name in fund_names and the fund's ticker in tickers, and the name adds 0.6 to
\* the relevance sum.
C17_FullNameMatch ==
    pc = "sort" =>
        \A k \in 1..Len(unique_articles) : \A ticker \in DOMAIN cef_funds :
            (Complete(unique_articles[k]) /\ NamesFund(unique_articles[k], ticker)) =>
                \E m \in 1..Len(processed_articles) :
                    /\ processed_articles[m].id = unique_articles[k].id
                    /\ Has(processed_articles[m].fund_names, cef_funds[ticker])
                    /\ Has(processed_articles[m].tickers, ticker)
                    /\ processed_articles[m].relevance_score >= 60

\* no element occurs twice in the list
NoDuplicates(list) == \A i, j \in 1..Len(list) : i # j => list[i] # list[j]

\* the word or name occurs in the title and again in the content of the article
InTitleAndContent(article, name) ==
    /\ Contains(Lower(article.title), Lower(name))
    /\ Contains(Lower(article.content), Lower(name))

\* C19: in every article process_articles produces, tickers, fund_names and
\* activist_mentions hold no element twice, however often the text names it.
C19_NoDuplicateMentions ==
    \A m \in 1..Len(processed_articles) :
        /\ NoDuplicates(processed_articles[m].tickers)
        /\ NoDuplicates(processed_articles[m].fund_names)
        /\ NoDuplicates(processed_articles[m].activist_mentions)

\* C19 witness: an article with one ticker, named in its title and in its content, and
\* an article with one activist firm, named in its title and in its content
C19_Witness ==
    /\ pc = "done"
    /\ \E m \in 1..Len(processed_articles) :
           /\ processed_articles[m].tickers = <<"ASA">>
           /\ InTitleAndContent(processed_articles[m], "ASA")
    /\ \E m \in 1..Len(processed_articles) :
           /\ processed_articles[m].activist_mentions = <<"Saba Capital">>
           /\ InTitleAndContent(processed_articles[m], "Saba Capital")

(***************************************************************************)
(* The classifier as a function of its arguments: SpecClassify draws a     *)
(* title and a content and applies enhanced_classify_article to them.      *)
(***************************************************************************)
NotCalled == [ category |-> "", relevance |-> -1, sentiment |-> 0,
               tickers |-> <<>>, activists |-> <<>> ]

Phrases ==
    { "ASA", "Norway's", "Norwegian", "Casa", "SWZ", "Saba Capital", "Bulldog Investors",
      "BlackRock", "CEF", "leverage", "tender offer", "dividend", "merger", "weather" }

RECURSIVE Joined(_)
Joined(n) ==
    IF n = 0 THEN {""}
    ELSE IF n = 1 THEN Phrases
    ELSE { t \o " " \o p : t \in Joined(n - 1), p \in Phrases }

Titles == {None} \cup UNION { Joined(n) : n \in 0..MaxPhrases }

Contents == { None, "", "ASA Gold and Precious Metals reports Q3 results",
              "Norway's ASA registration rules changed", "proxy contest" }

IdlePipeline ==
    /\ api_key = None
    /\ world = <<>>
    /\ pc = "idle"
    /\ runs = 0
    /\ article_cache = {}
    /\ all_articles = <<>>
    /\ unique_articles = <<>>
    /\ processed_articles = <<>>
    /\ returned = <<>>
    /\ log = <<>>

InitClassify ==
    /\ IdlePipeline
    /\ arg_title \in Titles
    /\ arg_content \in Contents
    /\ classified = NotCalled
    /\ IdleFilings
    /\ IdlePanel

Classify ==
    /\ classified = NotCalled
    /\ classified' = enhanced_classify_article(arg_title, arg_content)
    /\ UNCHANGED <<arg_title, arg_content>>
    /\ UNCHANGED <<pipelineVars, filingsVars, panelVars>>

SpecClassify == InitClassify /\ [][Classify]_vars

Called == classified # NotCalled

\* the text the call classified
CalledText == ClassifyText(arg_title, arg_content)

\* C5: the relevance score returned by enhanced_classify_article lies in [0.0, 1.0]
\* whatever the title and the content are (None and empty included).
C5_RelevanceBound == Called => classified.relevance >= 0 /\ classified.relevance <= MaxRelevance

\* C5 witness: a call whose signals sum past 1.0, and is returned clamped
C5_Witness == Called /\ Signals(CalledText).relevance_score > MaxRelevance /\ classified.relevance = MaxRelevance

\* one of the terms is a substring of the text
Mentions(text, terms) == \E t \in terms : Contains(text, t)

ActivistTerms == {"activist", "proxy", "tender"}
DistributionTerms == {"distribution", "dividend", "yield"}
CorporateTerms == {"merger", "liquidation", "conversion"}

\* C14: the category is one of general, activist_activity, distributions and
\* corporate_actions, chosen by the first rule that matches: an activist term wins over
\* distribution and merger terms, a distribution term over merger terms, else general.
C14_CategoryFirstMatch ==
    Called =>
        LET text == CalledText
            activist == Mentions(text, ActivistTerms)
            distribution == Mentions(text, DistributionTerms)
            corporate == Mentions(text, CorporateTerms)
        IN  /\ classified.category
                   \in {"general", "activist_activity", "distributions", "corporate_actions"}
            /\ activist => classified.category = "activist_activity"
            /\ (~ activist /\ distribution) => classified.category = "distributions"
            /\ (~ activist /\ ~ distribution /\ corporate)
                   => classified.category = "corporate_actions"
            /\ (~ activist /\ ~ distribution /\ ~ corporate)
                   => classified.category = "general"

\* C14 witness: a text with an activist, a distribution and a merger term
C14_Witness ==
    /\ Called
    /\ Mentions(CalledText, ActivistTerms)
    /\ Mentions(CalledText, DistributionTerms)
    /\ Mentions(CalledText, CorporateTerms)
    /\ classified.category = "activist_activity"


\* the weights of the signals of text other than the ticker ASA
ScoreWithoutAsa(text) ==
    LET found == Signals(text)
        others == Cardinality({ t \in {found.found_tickers[k] : k \in 1..Len(found.found_tickers)} : t # "ASA" })
    IN  TickerWeight * others
        + FamilyWeight * Len(found.found_fund_names)
        + KeywordWeight * Len(found.found_keywords)
        + ActivistWeight * Len(found.found_activists)
        + (IF others > 1 THEN MultiTickerBonus ELSE 0)

MentionsNorway(text) == Contains(text, "norway") \/ Contains(text, "norwegian")

\* ASA is in the returned tickers and the score holds its weight
AsaMatched ==
    /\ Has(classified.tickers, "ASA")
    /\ Signals(CalledText).relevance_score >= ScoreWithoutAsa(CalledText) + TickerWeight
    /\ classified.relevance = Clamp(Signals(CalledText).relevance_score)

\* ASA is not in the returned tickers and the score is that of the other signals
AsaSuppressed ==
    /\ ~ Has(classified.tickers, "ASA")
    /\ classified.relevance = Clamp(ScoreWithoutAsa(CalledText))

\* C9: the ticker ASA is matched and scored when the text has the word ASA and neither
\* "norway" nor "norwegian", and is suppressed (not in tickers, no score) when the text
\* also has "norway" or "norwegian".
C9_AsaDisambiguation ==
    (Called /\ WordSearch(CalledText, "asa")) =>
        IF MentionsNorway(CalledText) THEN AsaSuppressed ELSE AsaMatched

\* the firm the activist signal weighs double
TopPriorityFirm == activist_firms[1]

\* what the activist signal is to add for one matched firm: 1.0 or 0.5
ActivistSignal(firm) == IF firm = TopPriorityFirm THEN 100 ELSE 50

\* the only signal of the text is the activist firm
OnlySignal(text, firm) ==
    LET found == Signals(text)
    IN  /\ found.found_activists = <<firm>>
        /\ found.found_tickers = <<>>
        /\ found.found_fund_names = <<>>
        /\ found.found_keywords = <<>>

\* C10: an article whose only signal is the top-priority activist firm gets +1.0 from
\* the activist signal (relevance 1.0), and one whose only signal is a non-priority
\* activist firm gets exactly +0.5.
C10_ActivistPriority ==
    Called =>
        \A k \in 1..Len(activist_firms) :
            OnlySignal(CalledText, activist_firms[k]) =>
                classified.relevance = ActivistSignal(activist_firms[k])

\* the smaller of two scores
Min(a, b) == IF a < b THEN a ELSE b

\* the text matches tickers and no fund family, keyword or activist firm
OnlyTickers(text) ==
    LET found == Signals(text)
    IN  /\ found.found_tickers # <<>>
        /\ found.found_fund_names = <<>>
        /\ found.found_keywords = <<>>
        /\ found.found_activists = <<>>

\* C15: every ticker matched in the text adds exactly 0.3 to the sum before the clamp:
\* a text whose only signals are k tickers has the sum 0.3 * k.
C15_TickerWeight ==
    (Called /\ OnlyTickers(CalledText)) =>
        /\ Signals(CalledText).relevance_score = 30 * Len(classified.tickers)
        /\ classified.relevance = Min(30 * Len(classified.tickers), 100)

\* the text matches keywords and no ticker, fund family or activist firm
OnlyKeywords(text) ==
    LET found == Signals(text)
    IN  /\ found.found_keywords # <<>>
        /\ found.found_tickers = <<>>
        /\ found.found_fund_names = <<>>
        /\ found.found_activists = <<>>

\* C16: the keyword signal is one flag: a text with one keyword of the list and a text
\* with several both get the same 0.1 from it.
C16_KeywordFlag == (Called /\ OnlyKeywords(CalledText)) => classified.relevance = 10

\* the four signals of the weighting scheme, as the text shows them: the full fund names
\* matched, the tickers matched, whether any keyword occurs, the activist firms matched
CanonicalSignals(text) ==
    LET found == Signals(text)
    IN  [ names |-> { ticker \in DOMAIN cef_funds : Contains(text, LowerFunds[ticker]) },
          tickers |-> found.found_tickers,
          keyword |-> found.found_keywords # <<>>,
          activists |-> found.found_activists ]

\* the texts a classified text is compared with: no phrase, and every single phrase
ReferenceTexts == { ClassifyText(p, None) : p \in {None} \cup Phrases }

ReferenceScores ==
    [ text \in ReferenceTexts |->
        [ signals |-> CanonicalSignals(text), relevance |-> Classification(text).relevance ] ]

\* C18: the relevance score is a function of the four signals: two texts that agree on
\* the fund names, the tickers, the keyword flag and the activist firms matched get the
\* same score (a fund family named in the text adds nothing).
C18_FourSignalsOnly ==
    Called =>
        \A other \in ReferenceTexts :
            ReferenceScores[other].signals = CanonicalSignals(CalledText)
                => ReferenceScores[other].relevance = classified.relevance

(***************************************************************************)
(* core/sec_filings_fetcher.py: one CEFSecFilingsFetcher and its SQLite    *)
(* table.  A document is modelled by what the extractors find in it, an    *)
(* instant by its day (date.toordinal) and its second of the day.          *)
(***************************************************************************)
MaxFetches == 2      \* fetch_cef_filings calls on one fetcher instance

TARGET_FORMS ==
    { "SC 13D", "SC 13D/A", "SC 13G", "SC 13G/A",
      "13D", "13D/A", "13G", "13G/A",
      "SCHEDULE 13D", "SCHEDULE 13D/A", "SCHEDULE 13G", "SCHEDULE 13G/A" }

\* the aliases of ACTIVIST_ALIASES, in the order _is_activist tries them
ACTIVIST_ALIASES ==
    << "Saba Capital", "Boaz Weinstein", "Karpus", "Karpus Investment",
       "Bulldog Investors", "Phillip Goldstein", "Elliott", "Paul Singer",
       "Starboard Value", "Jeff Smith", "ValueAct", "Third Point", "Dan Loeb",
       "Pershing Square", "Bill Ackman", "Trian", "Nelson Peltz" >>

\* the ticker_map the fetcher is built with: two rows of DEFAULT_TICKER_MAP, in dict order
ticker_map ==
    << [ ticker |-> "ASA", cik |-> "0001230869",
         fund_name |-> "ASA Gold and Precious Metals Limited" ],
       [ ticker |-> "SWZ", cik |-> "0000813623", fund_name |-> "Swiss Helvetia Fund" ] >>

\* the activist_ciks the fetcher is built with: one row of ACTIVIST_CIKS
activist_ciks == << [ cik |-> "0001510281", friendly |-> "Saba Capital Management" ] >>

SUBMISSIONS_BASE == "https://data.sec.gov/submissions"
ARCHIVES_BASE == "https://www.sec.gov/Archives/edgar/data"

RECURSIVE UpperFrom(_, _)
UpperFrom(s, i) ==
    LET c == Ch(s, i)
        at == { k \in 1..Len(LOWER) : Ch(LOWER, k) = c }
    IN  IF i > Len(s) THEN ""
        ELSE (IF at = {} THEN c ELSE Ch(UPPER, CHOOSE k \in at : TRUE)) \o UpperFrom(s, i + 1)

\* str.upper()
Upper(s) == UpperFrom(s, 1)

RECURSIVE StripZerosFrom(_, _)
StripZerosFrom(s, i) ==
    IF i >= Len(s) THEN SubSeq(s, i, Len(s))
    ELSE IF Ch(s, i) = "0" THEN StripZerosFrom(s, i + 1)
    ELSE SubSeq(s, i, Len(s))

\* str(int(s)) for a text of digits
IntStr(s) == StripZerosFrom(s, 1)

RECURSIVE ZFill(_, _)
\* str.zfill(width)
ZFill(s, width) == IF Len(s) >= width THEN s ELSE ZFill("0" \o s, width)

RECURSIVE RemoveFrom(_, _, _)
RemoveFrom(s, c, i) ==
    IF i > Len(s) THEN ""
    ELSE (IF Ch(s, i) = c THEN "" ELSE Ch(s, i)) \o RemoveFrom(s, c, i + 1)

\* str.replace(c, '') for one character c
Remove(s, c) == RemoveFrom(s, c, 1)

\* lines 495-496: the url _get_submissions_json requests
SubmissionsUrl(cik) == SUBMISSIONS_BASE \o "/CIK" \o ZFill(IntStr(cik), 10) \o ".json"

\* line 439: the url of a filing's primary document
ArchiveUrl(cik, accession, primary) ==
    ARCHIVES_BASE \o "/" \o IntStr(cik) \o "/" \o Remove(accession, "-") \o "/" \o primary

DigitValue(c) == (CHOOSE k \in 1..10 : Ch("0123456789", k) = c) - 1

RECURSIVE ParseInt(_, _)
\* int() of the first n characters of a text of digits
ParseInt(s, n) == IF n = 0 THEN 0 ELSE ParseInt(s, n - 1) * 10 + DigitValue(Ch(s, n))

IsLeap(year) == year % 4 = 0 /\ (year % 100 # 0 \/ year % 400 = 0)

DaysInMonth(year, month) ==
    IF month = 2 THEN (IF IsLeap(year) THEN 29 ELSE 28)
    ELSE IF month \in {4, 6, 9, 11} THEN 30 ELSE 31

RECURSIVE DaysBeforeMonth(_, _)
DaysBeforeMonth(year, month) ==
    IF month = 1 THEN 0 ELSE DaysBeforeMonth(year, month - 1) + DaysInMonth(year, month - 1)

\* date(year, month, day).toordinal()
Ordinal(year, month, day) ==
    LET y == year - 1
    IN  y * 365 + (y \div 4) - (y \div 100) + (y \div 400) + DaysBeforeMonth(year, month) + day

\* datetime.strptime(text, "%Y-%m-%d"): midnight of that day
Strptime(text) ==
    [ day |-> Ordinal(ParseInt(SubSeq(text, 1, 4), 4), ParseInt(SubSeq(text, 6, 7), 2),
                      ParseInt(SubSeq(text, 9, 10), 2)),
      second |-> 0 ]

\* instant - timedelta(days=days)
MinusDays(instant, days) == [ day |-> instant.day - days, second |-> instant.second ]

\* a < b for two instants
Earlier(a, b) == a.day < b.day \/ (a.day = b.day /\ a.second < b.second)

(***************************************************************************)
(* What EDGAR answers.                                                     *)
(***************************************************************************)
\* a submissions JSON: the four parallel lists of filings.recent, tickers and name
Submissions(tickers, name, form, filingDate, accessionNumber, primaryDocument) ==
    [ ok |-> TRUE, tickers |-> tickers, name |-> name,
      recent |-> [ form |-> form, filingDate |-> filingDate,
                   accessionNumber |-> accessionNumber,
                   primaryDocument |-> primaryDocument ] ]

\* lines 504-509: a status other than 200, or an exception of the request
NoSubmissions ==
    [ ok |-> FALSE, tickers |-> <<>>, name |-> "",
      recent |-> [ form |-> <<>>, filingDate |-> <<>>, accessionNumber |-> <<>>,
                   primaryDocument |-> <<>> ] ]

\* what the extractors find in a document's text
Document(reporting_person, html_issuer, xml_issuer, name_of_issuer, trading_symbol) ==
    [ ok |-> TRUE, blank |-> FALSE, reporting_person |-> reporting_person,
      html_issuer |-> html_issuer, xml_issuer |-> xml_issuer,
      name_of_issuer |-> name_of_issuer, trading_symbol |-> trading_symbol ]

NoIssuer == [ ticker |-> "", name |-> "" ]

\* a schedule that names its reporting person and its issuer
NamedSchedule ==
    Document("Saba Capital Management, L.P.",
             [ ticker |-> "", name |-> "ASA Gold and Precious Metals Ltd" ],
             [ ticker |-> "ASA", name |-> "ASA Gold & Precious Metals Ltd" ],
             "ASA Gold and Precious Metals Ltd", "ASA")

\* a document in which no extractor finds anything
BareSchedule == Document(None, NoIssuer, NoIssuer, None, None)

\* a response with an empty body
BlankDocument == [ BareSchedule EXCEPT !.blank = TRUE ]

\* lines 519-520: an HTTP error or an exception of the request
NoDocument == [ BareSchedule EXCEPT !.ok = FALSE ]

\* the answers of EDGAR.  For ASA: no answer, one 13D dated exactly 30 days before the
\* day of the fetch, the same with an annual report and an older 13G/A, and lists of
\* unequal length; for SWZ: no answer, or one 13G; for the filer Saba: no answer, or the
\* schedule it filed on ASA, under the same accession number, with or without tickers
\* known for the filer.  Each document fails, is empty or has a text.
EdgarWorlds ==
    LET asa_cik == ticker_map[1].cik
        swz_cik == ticker_map[2].cik
        saba_cik == activist_ciks[1].cik
        tender == "0001062993-24-000001"
        stake == "0001062993-23-000002"
        swiss == "0000902664-24-000003"
        asa_name == "ASA Gold & Precious Metals Ltd"
        saba_name == "Saba Capital Management, L.P."
        AsaSubmissions ==
            { NoSubmissions,
              Submissions(<<"ASA">>, asa_name, <<"SC 13D">>, <<"2024-03-01">>, <<tender>>,
                          <<"tender.htm">>),
              Submissions(<<"ASA">>, asa_name, <<"N-CSR", "SC 13D", "SC 13G/A">>,
                          <<"2024-03-20", "2024-03-01", "2023-12-15">>,
                          <<"0001230869-24-000009", tender, stake>>,
                          <<"ncsr.htm", "tender.htm", "stake.htm">>),
              Submissions(<<"ASA">>, asa_name, <<"SC 13D", "SC 13D/A">>, <<"2024-03-01">>,
                          <<tender>>, <<"tender.htm">>) }
        SwzSubmissions ==
            { NoSubmissions,
              Submissions(<<"SWZ">>, "Swiss Helvetia Fund, Inc.", <<"sc 13g">>,
                          <<"2024-03-30">>, <<swiss>>, <<"swiss.htm">>) }
        SabaSubmissions ==
            { NoSubmissions,
              Submissions(<<>>, saba_name, <<"SC 13D">>, <<"2024-03-01">>, <<tender>>,
                          <<"tender.htm">>),
              Submissions(<<"SABA">>, saba_name, <<"SC 13D">>, <<"2024-03-01">>, <<tender>>,
                          <<"tender.htm">>) }
    IN  { [ submissions |-> (SubmissionsUrl(asa_cik) :> asa) @@ (SubmissionsUrl(swz_cik) :> swz)
                                @@ (SubmissionsUrl(saba_cik) :> saba),
            documents |-> (ArchiveUrl(asa_cik, tender, "tender.htm") :> tender_doc)
                              @@ (ArchiveUrl(asa_cik, stake, "stake.htm") :> NamedSchedule)
                              @@ (ArchiveUrl(swz_cik, swiss, "swiss.htm") :> swiss_doc)
                              @@ (ArchiveUrl(saba_cik, tender, "tender.htm") :> own_doc) ] :
            asa \in AsaSubmissions, swz \in SwzSubmissions, saba \in SabaSubmissions,
            tender_doc \in {NoDocument, BlankDocument, NamedSchedule},
            swiss_doc \in {NoDocument, NamedSchedule},
            own_doc \in {NoDocument, NamedSchedule, BareSchedule} }

\* the day of the fetches, at midnight and later
Clock == { [ day |-> Strptime("2024-03-31").day, second |-> s ] : s \in {0, 1} }

\* the days_back arguments
DaysBack == {30, 120}

(***************************************************************************)
(* The methods of CEFSecFilingsFetcher.  A call in progress is the record  *)
(* [store, reqs, filings]: the table, the urls requested so far and the    *)
(* list being returned.                                                    *)
(***************************************************************************)
\* a filing_id that is never found in the table
NeverExists(store, filing_id) == FALSE

\* lines 618-621: SELECT 1 FROM sec_filings WHERE filing_id=?
_exists(store, filing_id) == \E row \in store : row.filing_id = filing_id

\* lines 624-651: INSERT OR IGNORE under PRIMARY KEY filing_id; created_at defaults to
\* the time of the insert
_insert(store, filing, now) ==
    IF \E row \in store : row.filing_id = filing.filing_id THEN store
    ELSE store \cup
            { [ filing_id |-> filing.filing_id, cik |-> filing.cik,
                fund_name |-> filing.fund_name, ticker |-> filing.ticker,
                filing_type |-> filing.filing_type, filing_date |-> filing.filing_date,
                acceptance_date |-> filing.acceptance_date,
                accession_number |-> filing.accession_number,
                filer_name |-> filing.filer_name, url |-> filing.url,
                is_activist |-> IF filing.is_activist THEN 1 ELSE 0,
                created_at |-> now ] }

\* lines 588-596
_is_activist(filer_name) ==
    /\ Truthy(filer_name)
    /\ \E k \in 1..Len(ACTIVIST_ALIASES) : Contains(Lower(filer_name), Lower(ACTIVIST_ALIASES[k]))

\* lines 525-560 (no statement of the try block raises on a text, so the handler at
\* lines 558-560 is not taken)
_parse_document(html, meta) ==
    LET filer_name == OrElse(html.reporting_person, "Unknown Filer")
        given_ticker == OrElse(meta.ticker, "")
        given_name == OrElse(meta.fund_name, "")
        look == ~Truthy(given_ticker) \/ ~Truthy(given_name)
                    \/ given_ticker \in {"", "N/A"} \/ given_name \in {"", "N/A"}
        ticker == IF look THEN OrElse(given_ticker, html.html_issuer.ticker) ELSE given_ticker
        fund_name == IF look /\ (~Truthy(given_name) \/ given_name \in {"", "N/A"})
                     THEN html.html_issuer.name ELSE given_name
    IN  [ filing_id |-> meta.filing_id, cik |-> meta.cik, fund_name |-> OrElse(fund_name, ""),
          ticker |-> OrElse(ticker, ""), filing_type |-> meta.filing_type,
          filing_date |-> meta.filing_date, acceptance_date |-> meta.acceptance_date,
          accession_number |-> meta.accession, filer_name |-> filer_name,
          url |-> meta.url, is_activist |-> _is_activist(filer_name) ]

\* lines 459-463: a filing without ticker takes the first ticker and the name EDGAR
\* lists for its cik
FromSubmissions(filing, js) ==
    IF js.ok /\ js.tickers # <<>>
    THEN [ filing EXCEPT !.ticker = js.tickers[1], !.fund_name = js.name ]
    ELSE filing

\* lines 465-473: the issuer block of the XML
FromXml(filing, html) ==
    IF ~Truthy(filing.ticker) \/ filing.fund_name \in {"N/A", ""}
    THEN [ filing EXCEPT
             !.ticker = IF Truthy(html.xml_issuer.ticker) THEN html.xml_issuer.ticker ELSE @,
             !.fund_name = IF Truthy(html.xml_issuer.name) THEN html.xml_issuer.name ELSE @ ]
    ELSE filing

\* lines 474-480: the two patterns over the raw text
FromText(filing, html) ==
    IF ~Truthy(filing.ticker) \/ filing.fund_name \in {"", "N/A"}
    THEN [ filing EXCEPT
             !.fund_name = IF html.name_of_issuer # None
                           THEN OrElse(@, html.name_of_issuer) ELSE @,
             !.ticker = IF html.trading_symbol # None
                        THEN OrElse(@, html.trading_symbol) ELSE @ ]
    ELSE filing

\* lines 424-484; found is FALSE where the method returns None
_download_and_parse(st, now, who, accession, primary, filing_type, filing_date) ==
    LET filing_id == who.cik \o "-" \o accession
        url == ArchiveUrl(who.cik, accession, primary)
        html == edgar.documents[url]
        parsed == _parse_document(html,
                      [ filing_id |-> filing_id, cik |-> who.cik, ticker |-> who.ticker,
                        fund_name |-> who.fund_name, filing_type |-> filing_type,
                        filing_date |-> filing_date, acceptance_date |-> filing_date,
                        accession |-> accession, url |-> url ])
        lookup == ~Truthy(parsed.ticker)
        js == edgar.submissions[SubmissionsUrl(parsed.cik)]
        filing == FromText(FromXml(IF lookup THEN FromSubmissions(parsed, js) ELSE parsed,
                                   html), html)
    IN  IF _exists(st.store, filing_id)
        THEN [ found |-> FALSE, filing |-> <<>>, store |-> st.store, reqs |-> st.reqs ]
        ELSE IF ~html.ok \/ html.blank
        THEN [ found |-> FALSE, filing |-> <<>>, store |-> st.store,
               reqs |-> Append(st.reqs, url) ]
        ELSE [ found |-> TRUE, filing |-> filing, store |-> _insert(st.store, filing, now),
               reqs |-> IF lookup THEN st.reqs \o <<url, SubmissionsUrl(parsed.cik)>>
                        ELSE Append(st.reqs, url) ]

RECURSIVE FilingsFrom(_, _, _, _, _, _)
\* lines 358-377 and 402-422: the loop over the forms of one submissions JSON, from idx
FilingsFrom(st, now, cutoff, who, recent, idx) ==
    IF idx > Len(recent.form) THEN st
    ELSE IF Upper(recent.form[idx]) \notin TARGET_FORMS
    THEN FilingsFrom(st, now, cutoff, who, recent, idx + 1)
    ELSE IF idx > Len(recent.filingDate) \/ idx > Len(recent.accessionNumber)
                \/ idx > Len(recent.primaryDocument)
    THEN FilingsFrom(st, now, cutoff, who, recent, idx + 1)
    ELSE IF Earlier(Strptime(recent.filingDate[idx]), cutoff)
    THEN FilingsFrom(st, now, cutoff, who, recent, idx + 1)
    ELSE LET got == _download_and_parse(st, now, who, recent.accessionNumber[idx],
                                        recent.primaryDocument[idx], recent.form[idx],
                                        recent.filingDate[idx])
         IN  FilingsFrom([ store |-> got.store, reqs |-> got.reqs,
                           filings |-> IF got.found THEN Append(st.filings, got.filing)
                                       ELSE st.filings ],
                         now, cutoff, who, recent, idx + 1)

RECURSIVE _fetch_by_cef_tickers(_, _, _, _)
\* lines 344-378, from the k-th ticker of the map
_fetch_by_cef_tickers(st, now, cutoff, k) ==
    IF k > Len(ticker_map) THEN st
    ELSE LET who == ticker_map[k]
             data == edgar.submissions[SubmissionsUrl(who.cik)]
             asked == [ st EXCEPT !.reqs = Append(@, SubmissionsUrl(who.cik)) ]
         IN  IF ~data.ok THEN _fetch_by_cef_tickers(asked, now, cutoff, k + 1)
             ELSE _fetch_by_cef_tickers(FilingsFrom(asked, now, cutoff, who, data.recent, 1),
                                        now, cutoff, k + 1)

RECURSIVE _fetch_by_activist_ciks(_, _, _, _)
\* lines 381-423, from the k-th activist
_fetch_by_activist_ciks(st, now, cutoff, k) ==
    IF k > Len(activist_ciks) THEN st
    ELSE LET who == [ cik |-> activist_ciks[k].cik, fund_name |-> "N/A", ticker |-> "" ]
             data == edgar.submissions[SubmissionsUrl(who.cik)]
             asked == [ st EXCEPT !.reqs = Append(@, SubmissionsUrl(who.cik)) ]
             recent == data.recent
         IN  IF ~data.ok THEN _fetch_by_activist_ciks(asked, now, cutoff, k + 1)
             ELSE IF recent.form = <<>> /\ recent.filingDate = <<>>
                        /\ recent.accessionNumber = <<>> /\ recent.primaryDocument = <<>>
             THEN _fetch_by_activist_ciks(asked, now, cutoff, k + 1)
             ELSE _fetch_by_activist_ciks(FilingsFrom(asked, now, cutoff, who, recent, 1),
                                          now, cutoff, k + 1)

\* lines 335-342
fetch_cef_filings(store, now, days_back) ==
    LET cutoff == MinusDays(now, days_back)
        by_tickers == _fetch_by_cef_tickers([ store |-> store, reqs |-> <<>>,
                                              filings |-> <<>> ], now, cutoff, 1)
    IN  _fetch_by_activist_ciks(by_tickers, now, cutoff, 1)

IdleClassify ==
    /\ arg_title = None
    /\ arg_content = None
    /\ classified = NotCalled

InitFilings ==
    /\ IdlePipeline
    /\ IdleClassify
    /\ IdlePanel
    /\ edgar \in EdgarWorlds
    /\ utcnow \in Clock
    /\ sec_filings = {}
    /\ fetched = <<>>
    /\ requested = <<>>

\* one call of fetch_cef_filings, at an instant not before the call before
FetchCefFilings ==
    /\ Len(fetched) < MaxFetches
    /\ \E days_back \in DaysBack, now \in Clock :
        /\ ~Earlier(now, utcnow)
        /\ LET call == fetch_cef_filings(sec_filings, now, days_back)
           IN  /\ sec_filings' = call.store
               /\ fetched' = Append(fetched, [ days_back |-> days_back, now |-> now,
                                               filings |-> call.filings ])
               /\ requested' = Append(requested, call.reqs)
        /\ utcnow' = now
    /\ UNCHANGED edgar
    /\ UNCHANGED <<pipelineVars, classifyVars, panelVars>>

SpecFilings == InitFilings /\ [][FetchCefFilings]_vars

\* what EDGAR lists for the k-th ticker of the map
ListedFor(k) == edgar.submissions[SubmissionsUrl(ticker_map[k].cik)]

\* the idx-th filing EDGAR lists for the k-th ticker is one a call made at instant now
\* with days_back is to return: a target form, filed within the last days_back days,
\* with a document that downloads with a text
Due(k, idx, now, days_back) ==
    LET recent == ListedFor(k).recent
    IN  /\ ListedFor(k).ok
        /\ idx <= Len(recent.filingDate)
        /\ idx <= Len(recent.accessionNumber)
        /\ idx <= Len(recent.primaryDocument)
        /\ Upper(recent.form[idx]) \in TARGET_FORMS
        /\ ~Earlier(Strptime(recent.filingDate[idx]), MinusDays(now, days_back))
        /\ LET document == edgar.documents[ArchiveUrl(ticker_map[k].cik,
                                                      recent.accessionNumber[idx],
                                                      recent.primaryDocument[idx])]
           IN  document.ok /\ ~document.blank

\* the list a call returned holds the idx-th filing listed for the k-th ticker
ReturnedBy(call, k, idx) ==
    \E j \in 1..Len(call.filings) :
        /\ call.filings[j].ticker = ticker_map[k].ticker
        /\ call.filings[j].cik = ticker_map[k].cik
        /\ call.filings[j].accession_number = ListedFor(k).recent.accessionNumber[idx]

\* C26: every call of fetch_cef_filings, the first one against an empty table and the
\* repeated ones alike, returns each filing of each ticker of the map that has a target
\* form, was filed within the last days_back days and has a document that downloads.
C26_ReturnsRecentFilings ==
    \A c \in 1..Len(fetched) :
        \A k \in 1..Len(ticker_map) :
            \A idx \in 1..Len(ListedFor(k).recent.form) :
                Due(k, idx, fetched[c].now, fetched[c].days_back)
                    => ReturnedBy(fetched[c], k, idx)

\* the url of the document of the idx-th filing listed for the k-th ticker
DocumentUrl(k, idx) ==
    ArchiveUrl(ticker_map[k].cik, ListedFor(k).recent.accessionNumber[idx],
               ListedFor(k).recent.primaryDocument[idx])

\* C29: the sec_filings table never holds two rows with the same filing_id; a call of
\* fetch_cef_filings leaves every row stored before it as it was, and requests the
\* document of no filing stored before it.
C29_StoredOnce ==
    /\ [](\A a \in sec_filings : \A b \in sec_filings : a.filing_id = b.filing_id => a = b)
    /\ [][requested' # requested =>
            /\ sec_filings \subseteq sec_filings'
            /\ \A row \in sec_filings : ~Has(requested'[Len(requested')], row.url)]_vars

\* a second call finds a filing that the first call stored and returned still listed,
\* recent and downloadable, and a further filing to store
C29_Witness ==
    /\ Len(fetched) = 2
    /\ \E k \in 1..Len(ticker_map) :
        \E idx \in 1..Len(ListedFor(k).recent.form) :
            /\ Due(k, idx, fetched[2].now, fetched[2].days_back)
            /\ ReturnedBy(fetched[1], k, idx)
            /\ ~Has(requested[2], DocumentUrl(k, idx))
    /\ fetched[2].filings # <<>>

\* the (url, title) pairs of the feed entries the feed normalizer is handed in the
\* current run and does not drop for a missing url
NormalizedEntries ==
    UNION { { [ url |-> world.feeds[f].entries[k].link,
                title |-> Get(world.feeds[f].entries[k], "title", "") ] :
                k \in { k \in 1..Len(Take(world.feeds[f].entries, FeedEntryLimit)) :
                          Truthy(Get(world.feeds[f].entries[k], "link", "")) } } :
            f \in { f \in 1..Len(rss_feeds) : ~world.feeds[f].raises } }

\* the same of the search-API normalizer: the articles with a title and a url of the
\* queries that answered
NormalizedFound ==
    UNION { { [ url |-> world.newsapi[q].body[k].url,
                title |-> world.newsapi[q].body[k].title ] :
                k \in { k \in 1..Len(world.newsapi[q].body) :
                          /\ Truthy(Get(world.newsapi[q].body[k], "title", None))
                          /\ Truthy(Get(world.newsapi[q].body[k], "url", None)) } } :
            q \in { q \in 1..Len(queries) :
                      /\ ~KeyUnset(api_key)
                      /\ ~world.newsapi[q].raises
                      /\ world.newsapi[q].status_code = StatusOk } }

\* C27: the seen-id check of the feed and search-API normalizers drops a record only
\* after a record with the same URL and the same title, so every record they are handed
\* and do not drop for a missing field is in the gathered list, itself or as the earlier
\* record with that URL and title.
C27_DroppedOnlyAfterSameRecord ==
    pc = "dedup" =>
        \A record \in NormalizedEntries \cup NormalizedFound :
            \E k \in 1..Len(all_articles) :
                /\ all_articles[k].url = record.url
                /\ all_articles[k].title = record.title

\* C28: a feed entry that is dropped for its missing URL leaves the seen-id set as it
\* was: the set holds the ids of the gathered records and no other id.
C28_NoUrlEntryLeavesCache ==
    \A article_id \in article_cache :
        \E k \in 1..Len(all_articles) : all_articles[k].id = article_id

(***************************************************************************)
(* panels/news.py: the news panel of one session, with the sidebar filters *)
(* left as they start (nothing selected, priority 0.0).  news_df is the    *)
(* table _get_articles returned, its index is 0 .. len - 1; a row is hidden *)
(* when its index is in hidden_news_rows.                                  *)
(***************************************************************************)
MaxRows == 3        \* rows of a fetched table

\* the articles a fetch may return
PanelArticles ==
    { [ id |-> "1", title |-> "ASA Gold tender" ],
      [ id |-> "2", title |-> "Nuveen fund merger closes" ],
      [ id |-> "3", title |-> "Saba Capital bids for ASA" ] }

\* lines 61-74: the tables _get_articles may return (an empty one when nothing is found
\* or the fetch failed); fetch_all_news returns no article twice
Tables ==
    { table \in SeqsUpTo(PanelArticles, MaxRows) :
        \A i \in 1..Len(table) : \A j \in 1..Len(table) : table[i] = table[j] => i = j }

\* DataFrame.index of the table
Index(table) == { k - 1 : k \in 1..Len(table) }

\* DataFrame.loc[idx]
Row(table, idx) == table[idx + 1]

\* line 169: the index of visible_df
Visible(table, hidden) == Index(table) \ hidden

\* lines 91-93 and 100: 'Refresh now' clears the cache of _get_articles; the session
\* state is left as it is
KeptOnRefresh(hidden) == hidden

InitPanel ==
    /\ IdlePipeline
    /\ IdleClassify
    /\ IdleFilings
    /\ news_df \in Tables
    /\ hidden_news_rows = {}
    /\ hidden_articles = {}

\* lines 263-265: the hide button of a visible row
HideNewsRow ==
    /\ \E idx \in Visible(news_df, hidden_news_rows) :
        /\ hidden_news_rows' = hidden_news_rows \cup {idx}
        /\ hidden_articles' = hidden_articles \cup {Row(news_df, idx).id}
    /\ UNCHANGED news_df
    /\ UNCHANGED <<pipelineVars, classifyVars, filingsVars>>

\* lines 91-100: 'Refresh now' and the rerun that fetches the table again
RefreshNow ==
    /\ news_df' \in Tables
    /\ hidden_news_rows' = KeptOnRefresh(hidden_news_rows)
    /\ UNCHANGED hidden_articles
    /\ UNCHANGED <<pipelineVars, classifyVars, filingsVars>>

\* lines 176-178 and 45-47: 'Reset Hidden', a button the panel shows below a table that
\* has rows (lines 102-108)
ResetHidden ==
    /\ news_df # <<>>
    /\ hidden_news_rows' = {}
    /\ hidden_articles' = {}
    /\ UNCHANGED news_df
    /\ UNCHANGED <<pipelineVars, classifyVars, filingsVars>>

NextPanel ==
    \/ HideNewsRow
    \/ RefreshNow
    \/ ResetHidden

SpecPanel == InitPanel /\ [][NextPanel]_vars

\* C30: across hide, 'Refresh now' and 'Reset Hidden' the articles the panel hides are
\* the articles whose hide button was pressed since the last reset: each of them that is
\* in the table is hidden, and no other article of the table is.
C30_HiddenIsWhatWasHidden ==
    \A idx \in Index(news_df) :
        idx \in hidden_news_rows <=> Row(news_df, idx).id \in hidden_articles

====
